---------------------------- MODULE Spec2Model ----------------------------
(***************************************************************************)
(* A model of the physics tick of the SDF collision simulator              *)
(* (Simulation, ParticleSystem, Particle, CollisionObject).                *)
(*                                                                         *)
(* Numbers.  The program computes in IEEE single precision.  The model     *)
(* computes the same expressions in exact rational arithmetic: a number is *)
(* a reduced fraction <<n, d>> with d > 0, a glm::vec3 is a triple of such *)
(* fractions.  Rounding error is therefore abstracted away: an equality    *)
(* established here is the real-number identity that the floating point    *)
(* code approximates to within its epsilon.                                *)
(*                                                                         *)
(* Unit vectors.  glm::normalize(w) is w / sqrt(w.w), which is irrational  *)
(* for most w (the corner normal (1,1,0) of a wall hit, for one).  A       *)
(* normal is therefore kept as a record [dir, q] that stands for the       *)
(* vector dir / sqrt(q).  Every expression of the program in which the     *)
(* normal occurs twice (reflection, impulse) is rational in dir and q and  *)
(* is computed exactly; an expression in which it occurs once (a           *)
(* displacement along the normal) needs sqrt(q), which the model computes  *)
(* for the perfect squares its inputs are chosen to produce.               *)
(*                                                                         *)
(* Signed distance field.  CollisionObject::getSignedDistance and          *)
(* getNormal read a voxel grid built from a triangle mesh.  The tick only  *)
(* consumes their results, so each result is an input of the step that     *)
(* asks for it, drawn from a small set of distances and unit gradients.    *)
(***************************************************************************)
EXTENDS Integers, Sequences, FiniteSets, TLC

(***************************************************************************)
(* State                                                                   *)
(***************************************************************************)
VARIABLES
    world,             \* which inputs the environment draws from
    boundsMin,         \* Simulation::boundsMin
    boundsMax,         \* Simulation::boundsMax
    particles,         \* ParticleSystem::particles
    collisionObjects,  \* Simulation::collisionObjects
    pc,                \* 0 outside update, else the number of the next sub-step
    deltaTime,         \* the argument of the running update call
    ticks,             \* update calls completed
    stepLog,           \* sub-steps run by the current or the last update call
    meshLog,           \* pairs checked by its mesh-mesh step
    boundsLog,         \* objects before and after its object wall-bounce step
    wallLog,           \* particles before and after its wall-bounce step
    hitLog,            \* particle-object contacts of its particle-mesh step
    seen,              \* objects as written by step 3 and as read by step 6
    trajectory,        \* position of particle 1 after initialize and each tick
    twin,              \* a second run given the same calls, in the world "runs"
    mesh,              \* a Mesh: the file it was loaded from and its triangles
    root,              \* BVH::root of a BVH built over the triangles of mesh
    sdf,               \* an SDF generated from mesh
    answer,            \* the last query put to the BVH, the SDF or an object
    held,              \* the CollisionObject the caller has not yet handed over
    cache,             \* the mutable members of the CollisionObject under call
    statics            \* the function-local statics of getRandomPosition

\* the variables of the simulation and those of the geometry
simulation == <<boundsMin, boundsMax, particles, collisionObjects, pc, deltaTime,
                ticks, stepLog, boundsLog, meshLog, wallLog, hitLog, seen,
                trajectory, twin>>
geometry == <<mesh, root, sdf, answer>>
\* what lives outside the Simulation: the caller's object and the statics
outside == <<held, cache, statics>>

(***************************************************************************)
(* Exact rational arithmetic                                               *)
(***************************************************************************)
Abs(x) == IF x < 0 THEN -x ELSE x

RECURSIVE Gcd(_, _)
Gcd(a, b) == IF b = 0 THEN a ELSE Gcd(b, a % b)

\* the reduced fraction n/d (d # 0), as a function of the two integers
Reduced[n \in Int, d \in Int] ==
    LET s == IF d < 0 THEN -1 ELSE 1
        g == Gcd(Abs(n), Abs(d))
    IN  <<(s * n) \div g, (s * d) \div g>>
\* the float of value n/d
R(n, d) == Reduced[n, d]

Zero == <<0, 1>>
One == <<1, 1>>
Two == <<2, 1>>
MinusOne == <<-1, 1>>

\* sums over the least common denominator and products of cross-reduced
\* factors keep the intermediate integers small
RAdd(a, b) ==
    LET g == Gcd(a[2], b[2])
    IN  R(a[1] * (b[2] \div g) + b[1] * (a[2] \div g), (a[2] \div g) * b[2])
RSub(a, b) ==
    LET g == Gcd(a[2], b[2])
    IN  R(a[1] * (b[2] \div g) - b[1] * (a[2] \div g), (a[2] \div g) * b[2])
RMul(a, b) ==
    LET g == Gcd(Abs(a[1]), b[2])
        h == Gcd(Abs(b[1]), a[2])
    IN  R((a[1] \div g) * (b[1] \div h), (a[2] \div h) * (b[2] \div g))
RDiv(a, b) == RMul(a, IF b[1] < 0 THEN <<-b[2], -b[1]>> ELSE <<b[2], b[1]>>)
RNeg(a) == <<-a[1], a[2]>>
RLt(a, b) ==
    LET g == Gcd(a[2], b[2]) IN a[1] * (b[2] \div g) < b[1] * (a[2] \div g)
RLe(a, b) ==
    LET g == Gcd(a[2], b[2]) IN a[1] * (b[2] \div g) <= b[1] * (a[2] \div g)
RGt(a, b) == RLt(b, a)
RGe(a, b) == RLe(b, a)
RAbs(a) == <<Abs(a[1]), a[2]>>
RMax(a, b) == IF RLt(a, b) THEN b ELSE a
RMin(a, b) == IF RLt(b, a) THEN b ELSE a

\* floor of the integer square root, by bisection on [lo, hi]
RECURSIVE ISqrtIn(_, _, _)
ISqrtIn(n, lo, hi) ==
    IF lo >= hi THEN lo
    ELSE LET mid == (lo + hi + 1) \div 2
         IN  IF mid * mid <= n THEN ISqrtIn(n, mid, hi) ELSE ISqrtIn(n, lo, mid - 1)

ISqrt(n) == ISqrtIn(n, 0, IF n < 46340 THEN n ELSE 46340)

IsSquare(a) == ISqrt(a[1]) * ISqrt(a[1]) = a[1] /\ ISqrt(a[2]) * ISqrt(a[2]) = a[2]

\* sqrt of a fraction that is the square of a fraction
RSqrt(a) == <<ISqrt(a[1]), ISqrt(a[2])>>

\* x * (1.0f / d) for a finite x, where infinity is <<1, 0>> or <<-1, 0>>
\* and NaN is <<0, 0>>: 1.0f / 0.0f is +infinity, and 0 times
\* infinity is NaN
TimesInverse(x, d) ==
    IF d # Zero THEN RDiv(x, d)
    ELSE IF x = Zero THEN <<0, 0>>
    ELSE IF RLt(x, Zero) THEN <<-1, 0>> ELSE <<1, 0>>

(***************************************************************************)
(* glm::vec3                                                               *)
(***************************************************************************)
VZero == <<Zero, Zero, Zero>>
VAdd(a, b) == <<RAdd(a[1], b[1]), RAdd(a[2], b[2]), RAdd(a[3], b[3])>>
VSub(a, b) == <<RSub(a[1], b[1]), RSub(a[2], b[2]), RSub(a[3], b[3])>>
VScale(a, s) == <<RMul(a[1], s), RMul(a[2], s), RMul(a[3], s)>>
VNeg(a) == <<RNeg(a[1]), RNeg(a[2]), RNeg(a[3])>>
VDot(a, b) == RAdd(RAdd(RMul(a[1], b[1]), RMul(a[2], b[2])), RMul(a[3], b[3]))
Axes == 1..3

\* A normal [dir, q] stands for dir / sqrt(q).
\* glm::normalize(w), w # 0
Normalize(w) == [dir |-> w, q |-> VDot(w, w)]
\* a vector used as a normal without normalisation
RawNormal(w) == [dir |-> w, q |-> One]
NegNormal(n) == [dir |-> VNeg(n.dir), q |-> n.q]
\* dot(v, n) * n: the normal occurs twice, so sqrt(q) * sqrt(q) = q
DotTimesNormal(v, n) == VScale(n.dir, RDiv(VDot(v, n.dir), n.q))
\* n * s: the normal occurs once
NormalTimes(n, s) == VScale(n.dir, RDiv(s, RSqrt(n.q)))
\* the sign of dot(v, n) is the sign of dot(v, dir)
DotSign(v, n) == VDot(v, n.dir)
\* glm::length(v) < eps and glm::length(v) > eps, for 0 < eps < 1, decided
\* on the components where they decide it and on the squares otherwise
LengthLt(v, eps) ==
    /\ \A a \in Axes : RLt(RAbs(v[a]), eps)
    /\ RLt(VDot(v, v), RMul(eps, eps))
LengthGt(v, eps) ==
    \/ \E a \in Axes : RGt(RAbs(v[a]), eps)
    \/ RGt(VDot(v, v), RMul(eps, eps))

(***************************************************************************)
(* Compile-time constants of the simulation                                *)
(***************************************************************************)
\* (variants with a damped bounce, e = 0.8)
ParticleRestitution_Damped == R(4, 5)
ObjectRestitution_Damped == R(4, 5)
\* restitution of the particle-vs-dynamic-object impulse
ParticleRestitution == One
\* restitution of the object-vs-object impulse
ObjectRestitution == One
\* surface threshold of the mesh-mesh narrow phase
SurfaceThreshold == R(1, 50)
\* depth used when neither centre reads as penetrating
DefaultPenetration == R(1, 20)
\* least separation applied, and the buffer factor on the depth
MinSeparation == R(1, 50)
SeparationFactor == R(6, 5)
\* coincident-centre test of the mesh-mesh normal
CoincidentEps == R(1, 1000)
\* least usable gradient length, and the extra push-out of a particle
GradientEps == R(1, 1000)
PushOutEps == R(1, 1000)
\* size and mass given to every particle by ParticleSystem::initialize
InitialParticleSize == R(1, 20)
InitialParticleMass == One

(***************************************************************************)
(* Particle                                                                *)
(***************************************************************************)
\* Particle::setMass
ParticleSetMass(p, m) ==
    [p EXCEPT !.mass = m,
              !.inverseMass = IF RGt(m, Zero) THEN RDiv(One, m) ELSE Zero]

\* Particle::Particle(position, velocity, size, mass)
NewParticle(position, velocity, size, mass) ==
    ParticleSetMass([position |-> position, velocity |-> velocity, size |-> size,
                     mass |-> Zero, inverseMass |-> Zero], mass)

\* Particle::update
ParticleUpdate(p, deltaT) ==
    [p EXCEPT !.position = VAdd(p.position, VScale(p.velocity, deltaT))]

\* ParticleSystem::update
ParticleSystemUpdate(ps, deltaT) ==
    [i \in 1..Len(ps) |-> ParticleUpdate(ps[i], deltaT)]

\* ParticleSystem::setParticleSize
SetParticleSize(ps, size) == [i \in 1..Len(ps) |-> [ps[i] EXCEPT !.size = size]]

(***************************************************************************)
(* CollisionObject (rotation is (w, x, y, z); the tick never assigns it,    *)
(* and the world boxes below are those of the identity rotation)           *)
(***************************************************************************)
\* CollisionObject::CollisionObject
NewObject ==
    [position |-> VZero, rotation |-> <<One, Zero, Zero, Zero>>,
     scale |-> <<One, One, One>>, velocity |-> VZero,
     mass |-> Zero, inverseMass |-> Zero,
     meshMin |-> VZero, meshMax |-> VZero,
     meshLoaded |-> FALSE, sdfGenerated |-> FALSE]

\* (variant that inverts every mass but 0)
SetMass_SignBlind(o, m) ==
    [o EXCEPT !.mass = m,
              !.inverseMass = IF m # Zero THEN RDiv(One, m) ELSE Zero]

\* CollisionObject::setMass
SetMass(o, m) ==
    [o EXCEPT !.mass = m,
              !.inverseMass = IF RGt(m, Zero) THEN RDiv(One, m) ELSE Zero]

\* (variant that takes the mesh as loaded whatever Mesh::loadOBJ returned)
LoadFromOBJ_IgnoreResult(o, ok, lo, hi) ==
    LET size == VSub(hi, lo)
        volume == RMul(RMul(size[1], size[2]), size[3])
    IN  SetMass([o EXCEPT !.meshLoaded = TRUE, !.sdfGenerated = TRUE,
                          !.meshMin = lo, !.meshMax = hi], volume)

\* CollisionObject::loadFromOBJ: ok is the result of Mesh::loadOBJ, and
\* (lo, hi) the bounds of the mesh it read
LoadFromOBJ(o, ok, lo, hi) ==
    IF ~ok THEN [o EXCEPT !.meshLoaded = FALSE, !.sdfGenerated = FALSE]
    ELSE LET size == VSub(hi, lo)
             volume == RMul(RMul(size[1], size[2]), size[3])
         IN  SetMass([o EXCEPT !.meshLoaded = TRUE, !.sdfGenerated = TRUE,
                               !.meshMin = lo, !.meshMax = hi], volume)

SetPosition(o, position) == [o EXCEPT !.position = position]
SetRotation(o, rotation) == [o EXCEPT !.rotation = rotation]
SetScale(o, scale) == [o EXCEPT !.scale = scale]
SetVelocity(o, velocity) == [o EXCEPT !.velocity = velocity]
IsValid(o) == o.meshLoaded /\ o.sdfGenerated
\* a body is static when its inverse mass is the sentinel 0
IsStatic(o) == o.inverseMass = Zero

\* (variant that integrates a static body too)
UpdatePhysics_StaticToo(o, deltaT) ==
    IF RGt(deltaT, Zero)
    THEN SetPosition(o, VAdd(o.position, VScale(o.velocity, deltaT)))
    ELSE o

\* CollisionObject::updatePhysics
UpdatePhysics(o, deltaT) ==
    IF ~IsStatic(o) /\ RGt(deltaT, Zero)
    THEN SetPosition(o, VAdd(o.position, VScale(o.velocity, deltaT)))
    ELSE o

\* one coordinate of the 8 transformed corners of the local box, T * S
CornerLo(o, a) == RAdd(o.position[a], RMul(o.scale[a], o.meshMin[a]))
CornerHi(o, a) == RAdd(o.position[a], RMul(o.scale[a], o.meshMax[a]))

\* CollisionObject::getWorldMin / getWorldMax
GetWorldMin(o) ==
    IF ~o.meshLoaded THEN VZero
    ELSE [a \in Axes |-> RMin(CornerLo(o, a), CornerHi(o, a))]

GetWorldMax(o) ==
    IF ~o.meshLoaded THEN VZero
    ELSE [a \in Axes |-> RMax(CornerLo(o, a), CornerHi(o, a))]

(***************************************************************************)
(* CollisionObject: the cached transform.  A glm::mat4 is kept as its four  *)
(* rows.  The cache (transformMatrix, inverseTransformMatrix,               *)
(* transformDirty) is mutable and written by const getters; it is held in   *)
(* the variable cache for the object whose interface is called.             *)
(***************************************************************************)
Identity ==
    <<<<One, Zero, Zero, Zero>>, <<Zero, One, Zero, Zero>>,
      <<Zero, Zero, One, Zero>>, <<Zero, Zero, Zero, One>>>>

\* the product of two glm::mat4
MatEntry(a, b, i, j) ==
    RAdd(RAdd(RMul(a[i][1], b[1][j]), RMul(a[i][2], b[2][j])),
         RAdd(RMul(a[i][3], b[3][j]), RMul(a[i][4], b[4][j])))
MatRow(a, b, i) ==
    <<MatEntry(a, b, i, 1), MatEntry(a, b, i, 2), MatEntry(a, b, i, 3),
      MatEntry(a, b, i, 4)>>
MatMul(a, b) == <<MatRow(a, b, 1), MatRow(a, b, 2), MatRow(a, b, 3), MatRow(a, b, 4)>>

\* glm::translate(glm::mat4(1.0f), v)
Translate(v) ==
    <<<<One, Zero, Zero, v[1]>>, <<Zero, One, Zero, v[2]>>,
      <<Zero, Zero, One, v[3]>>, <<Zero, Zero, Zero, One>>>>

\* glm::mat4_cast(q), q = (w, x, y, z); the quaternion is not normalized
MatCast(q) ==
    LET w == q[1]
        x == q[2]
        y == q[3]
        z == q[4]
        Twice(a, b) == RMul(Two, RMul(a, b))
    IN  <<<<RSub(One, RAdd(Twice(y, y), Twice(z, z))),
            RSub(Twice(x, y), Twice(w, z)),
            RAdd(Twice(x, z), Twice(w, y)), Zero>>,
          <<RAdd(Twice(x, y), Twice(w, z)),
            RSub(One, RAdd(Twice(x, x), Twice(z, z))),
            RSub(Twice(y, z), Twice(w, x)), Zero>>,
          <<RSub(Twice(x, z), Twice(w, y)),
            RAdd(Twice(y, z), Twice(w, x)),
            RSub(One, RAdd(Twice(x, x), Twice(y, y))), Zero>>,
          <<Zero, Zero, Zero, One>>>>

\* glm::scale(glm::mat4(1.0f), s)
ScaleMatrix(s) ==
    <<<<s[1], Zero, Zero, Zero>>, <<Zero, s[2], Zero, Zero>>,
      <<Zero, Zero, s[3], Zero>>, <<Zero, Zero, Zero, One>>>>

\* the matrix without row i and column j, and its determinant
MinorRow(m, r, j) ==
    <<m[r][IF 1 < j THEN 1 ELSE 2], m[r][IF 2 < j THEN 2 ELSE 3],
      m[r][IF 3 < j THEN 3 ELSE 4]>>
Minor(m, i, j) ==
    <<MinorRow(m, IF 1 < i THEN 1 ELSE 2, j), MinorRow(m, IF 2 < i THEN 2 ELSE 3, j),
      MinorRow(m, IF 3 < i THEN 3 ELSE 4, j)>>
Det3(m) ==
    RAdd(RSub(RMul(m[1][1], RSub(RMul(m[2][2], m[3][3]), RMul(m[2][3], m[3][2]))),
              RMul(m[1][2], RSub(RMul(m[2][1], m[3][3]), RMul(m[2][3], m[3][1])))),
         RMul(m[1][3], RSub(RMul(m[2][1], m[3][2]), RMul(m[2][2], m[3][1]))))
Cofactor(m, i, j) ==
    IF (i + j) % 2 = 0 THEN Det3(Minor(m, i, j)) ELSE RNeg(Det3(Minor(m, i, j)))
Determinant(m) ==
    RAdd(RAdd(RMul(m[1][1], Cofactor(m, 1, 1)), RMul(m[1][2], Cofactor(m, 1, 2))),
         RAdd(RMul(m[1][3], Cofactor(m, 1, 3)), RMul(m[1][4], Cofactor(m, 1, 4))))

\* glm::inverse: the cofactors times 1 / determinant, which is not finite
\* when the determinant is 0
InverseRow(m, det, i) ==
    <<TimesInverse(Cofactor(m, 1, i), det), TimesInverse(Cofactor(m, 2, i), det),
      TimesInverse(Cofactor(m, 3, i), det), TimesInverse(Cofactor(m, 4, i), det)>>
InverseGiven(m, det) ==
    <<InverseRow(m, det, 1), InverseRow(m, det, 2), InverseRow(m, det, 3),
      InverseRow(m, det, 4)>>
Inverse(m) == InverseGiven(m, Determinant(m))

\* (variant that keeps the cached matrices whatever the dirty flag says)
UpdateTransformCache_Keep(c, o) == [c EXCEPT !.transformDirty = FALSE]

\* CollisionObject::updateTransformCache for the object o with the cache c
UpdateTransformCache(c, o) ==
    IF ~c.transformDirty THEN c
    ELSE LET transformMatrix ==
                 MatMul(MatMul(Translate(o.position), MatCast(o.rotation)),
                        ScaleMatrix(o.scale))
         IN  [transformMatrix |-> transformMatrix,
              inverseTransformMatrix |-> Inverse(transformMatrix),
              transformDirty |-> FALSE]

\* the cache as the constructor leaves it
NewCache ==
    [transformMatrix |-> Identity, inverseTransformMatrix |-> Identity,
     transformDirty |-> TRUE]

(***************************************************************************)
(* Simulation: walls                                                       *)
(***************************************************************************)
\* (variant that only removes the normal component: v - dot(v, n) * n)
ReflectVelocity_NoFactorTwo(velocity, normal) ==
    VSub(velocity, DotTimesNormal(velocity, normal))

\* Simulation::reflectVelocity: v - 2 * dot(v, n) * n
ReflectVelocity(velocity, normal) ==
    VSub(velocity, VScale(DotTimesNormal(velocity, normal), Two))

\* one axis of checkWallCollision: the component written into the normal
WallNormalAxis(pos, radius, lo, hi) ==
    IF RLe(RSub(pos, radius), lo) THEN One
    ELSE IF RGe(RAdd(pos, radius), hi) THEN MinusOne
    ELSE Zero

\* Simulation::checkWallCollision
CheckWallCollision(p, bMin, bMax) ==
    LET raw == [a \in Axes |->
                   WallNormalAxis(p.position[a], p.size, bMin[a], bMax[a])]
        collision == \E a \in Axes : raw[a] # Zero
    IN  [collision |-> collision,
         normal |-> IF collision /\ RGt(VDot(raw, raw), One)
                    THEN Normalize(raw) ELSE RawNormal(raw)]

\* (variant that pushes back from the lower wall only)
PushInsideAxis_LowerOnly(pos, radius, lo, hi) ==
    IF RLt(RSub(pos, radius), lo) THEN RAdd(lo, radius) ELSE pos

\* one axis of the push back inside the bounds
PushInsideAxis(pos, radius, lo, hi) ==
    LET p1 == IF RLt(RSub(pos, radius), lo) THEN RAdd(lo, radius) ELSE pos
    IN  IF RGt(RAdd(p1, radius), hi) THEN RSub(hi, radius) ELSE p1

\* (variant that corrects the position and keeps the velocity)
WallBounce_KeepVelocity(p, bMin, bMax) ==
    IF CheckWallCollision(p, bMin, bMax).collision
    THEN [p EXCEPT !.position = [a \in Axes |->
              PushInsideAxis(p.position[a], p.size, bMin[a], bMax[a])]]
    ELSE p

\* the body of the loop of Simulation::handleWallCollisions
WallBounce(p, bMin, bMax) ==
    LET c == CheckWallCollision(p, bMin, bMax)
    IN  IF c.collision
        THEN [p EXCEPT
                !.velocity = ReflectVelocity(p.velocity, c.normal),
                !.position = [a \in Axes |->
                    PushInsideAxis(p.position[a], p.size, bMin[a], bMax[a])]]
        ELSE p

\* Simulation::handleWallCollisions
HandleWallCollisions(ps, bMin, bMax) ==
    [i \in 1..Len(ps) |-> WallBounce(ps[i], bMin, bMax)]

\* (variant that reflects the component instead of forcing its sign)
ObjectWallAxis_Reflect(o, a, bMin, bMax) ==
    LET objMin == GetWorldMin(o)[a]
        objMax == GetWorldMax(o)[a]
    IN  IF RLe(objMin, bMin[a])
        THEN [bounced |-> TRUE, velocity |-> RNeg(o.velocity[a]),
              position |-> RAdd(bMin[a], RSub(o.position[a], objMin))]
        ELSE IF RGe(objMax, bMax[a])
        THEN [bounced |-> TRUE, velocity |-> RNeg(o.velocity[a]),
              position |-> RSub(bMax[a], RSub(objMax, o.position[a]))]
        ELSE [bounced |-> FALSE, velocity |-> o.velocity[a],
              position |-> o.position[a]]

\* one axis of updateCollisionObjectBounds
ObjectWallAxis(o, a, bMin, bMax) ==
    LET objMin == GetWorldMin(o)[a]
        objMax == GetWorldMax(o)[a]
    IN  IF RLe(objMin, bMin[a])
        THEN [bounced |-> TRUE, velocity |-> RAbs(o.velocity[a]),
              position |-> RAdd(bMin[a], RSub(o.position[a], objMin))]
        ELSE IF RGe(objMax, bMax[a])
        THEN [bounced |-> TRUE, velocity |-> RNeg(RAbs(o.velocity[a])),
              position |-> RSub(bMax[a], RSub(objMax, o.position[a]))]
        ELSE [bounced |-> FALSE, velocity |-> o.velocity[a],
              position |-> o.position[a]]

\* the body of the loop of Simulation::updateCollisionObjectBounds
ObjectWallBounce(o, bMin, bMax) ==
    IF IsStatic(o) THEN o
    ELSE LET r == [a \in Axes |-> ObjectWallAxis(o, a, bMin, bMax)]
         IN  IF \E a \in Axes : r[a].bounced
             THEN SetPosition(SetVelocity(o, [a \in Axes |-> r[a].velocity]),
                              [a \in Axes |-> r[a].position])
             ELSE o

\* Simulation::updateCollisionObjectBounds
UpdateCollisionObjectBounds(objs, bMin, bMax) ==
    [i \in 1..Len(objs) |-> ObjectWallBounce(objs[i], bMin, bMax)]

(***************************************************************************)
(* Simulation: impulse response                                            *)
(***************************************************************************)
\* j * normal, with j = -(1 + e) * dot(rel, normal) / wSum
Impulse(rel, normal, e, wSum) ==
    VScale(DotTimesNormal(rel, normal), RDiv(RNeg(RAdd(One, e)), wSum))

\* (variant that leaves the object's velocity as it was)
CalculateCollisionResponse_ParticleOnly(p, object, normal) ==
    IF IsStatic(object)
    THEN [velocity |-> ReflectVelocity(p.velocity, normal), object |-> object,
          divisors |-> {}]
    ELSE LET relativeVelocity == VSub(p.velocity, object.velocity)
         IN  IF RGt(DotSign(relativeVelocity, normal), Zero)
             THEN [velocity |-> p.velocity, object |-> object, divisors |-> {}]
             ELSE [velocity |->
                      VAdd(p.velocity,
                           VScale(Impulse(relativeVelocity, normal,
                                          ParticleRestitution,
                                          RAdd(p.inverseMass, object.inverseMass)),
                                  p.inverseMass)),
                   object |-> object,
                   divisors |-> {RAdd(p.inverseMass, object.inverseMass)}]

\* (variant without the test for separating velocities)
CalculateCollisionResponse_NoSeparatingTest(p, object, normal) ==
    IF IsStatic(object)
    THEN [velocity |-> ReflectVelocity(p.velocity, normal), object |-> object,
          divisors |-> {}]
    ELSE LET impulse == Impulse(VSub(p.velocity, object.velocity), normal,
                                ParticleRestitution,
                                RAdd(p.inverseMass, object.inverseMass))
         IN  [velocity |-> VAdd(p.velocity, VScale(impulse, p.inverseMass)),
              object |-> SetVelocity(object,
                            VSub(object.velocity,
                                 VScale(impulse, object.inverseMass))),
              divisors |-> {RAdd(p.inverseMass, object.inverseMass)}]

\* Simulation::calculateCollisionResponse: the particle's new velocity, the
\* object as the call leaves it, and the sums of inverse masses by which the
\* call divided
CalculateCollisionResponse(p, object, normal) ==
    IF IsStatic(object)
    THEN [velocity |-> ReflectVelocity(p.velocity, normal), object |-> object,
          divisors |-> {}]
    ELSE LET v1 == p.velocity
             v2 == object.velocity
             relativeVelocity == VSub(v1, v2)
         IN  IF RGt(DotSign(relativeVelocity, normal), Zero)
             THEN [velocity |-> v1, object |-> object, divisors |-> {}]
             ELSE LET wSum == RAdd(p.inverseMass, object.inverseMass)
                      impulse == Impulse(relativeVelocity, normal,
                                         ParticleRestitution, wSum)
                  IN  [velocity |-> VAdd(v1, VScale(impulse, p.inverseMass)),
                       object |-> SetVelocity(object,
                                     VSub(v2, VScale(impulse, object.inverseMass))),
                       divisors |-> {wSum}]

(***************************************************************************)
(* Simulation: mesh against mesh                                           *)
(***************************************************************************)
\* the collision normal of resolveObjectCollision, from obj1 to obj2
PairNormal(pos1, pos2) ==
    LET d == VSub(pos2, pos1)
    IN  IF LengthLt(d, CoincidentEps)
        THEN RawNormal(<<One, Zero, Zero>>)
        ELSE Normalize(d)

\* (variant with the default as a floor: max(0, -dist1, -dist2, 0.05))
PenetrationDepth_Floored(dist1, dist2) ==
    RMax(RMax(RMax(Zero, RNeg(dist1)), RNeg(dist2)), DefaultPenetration)

\* the penetration depth of resolveObjectCollision
PenetrationDepth(dist1, dist2) ==
    LET a == IF RLt(dist1, Zero) THEN RMax(Zero, RNeg(dist1)) ELSE Zero
        b == IF RLt(dist2, Zero) THEN RMax(a, RNeg(dist2)) ELSE a
    IN  IF b = Zero THEN DefaultPenetration ELSE b

\* the separation of resolveObjectCollision
Separation(depth) == RMax(MinSeparation, RMul(depth, SeparationFactor))

\* (variant that moves a body by the whole separation)
SeparationShare_Full == One
\* the share of the separation by which each non-static body is moved
SeparationShare == R(1, 2)

\* the velocities resolveObjectCollision leaves the two bodies with, and
\* the sums of inverse masses by which it divided
ResolveVelocities(obj1, obj2, normal) ==
    LET v1 == obj1.velocity
        v2 == obj2.velocity
    IN  IF IsStatic(obj1)
        THEN <<v1, ReflectVelocity(v2, NegNormal(normal)), {}>>
        ELSE IF IsStatic(obj2)
        THEN <<ReflectVelocity(v1, normal), v2, {}>>
        ELSE LET wSum == RAdd(obj1.inverseMass, obj2.inverseMass)
                 impulse == Impulse(VSub(v1, v2), normal, ObjectRestitution, wSum)
             IN  <<VAdd(v1, VScale(impulse, obj1.inverseMass)),
                   VSub(v2, VScale(impulse, obj2.inverseMass)), {wSum}>>

\* Simulation::resolveObjectCollision; dist1 = obj2.getSignedDistance(pos1)
\* and dist2 = obj1.getSignedDistance(pos2).  The result is the two bodies
\* as the call leaves them, with the values of its locals.
ResolveObjectCollision(obj1, obj2, pos1, pos2, dist1, dist2) ==
    LET normal == PairNormal(pos1, pos2)
        penetrationDepth == PenetrationDepth(dist1, dist2)
        separation == Separation(penetrationDepth)
        separationVector == NormalTimes(normal, RMul(separation, SeparationShare))
        v == ResolveVelocities(obj1, obj2, normal)
        moved1 == IF ~IsStatic(obj1)
                  THEN SetPosition(obj1, VSub(pos1, separationVector)) ELSE obj1
        moved2 == IF ~IsStatic(obj2)
                  THEN SetPosition(obj2, VAdd(pos2, separationVector)) ELSE obj2
    IN  [objects |-> <<SetVelocity(moved1, v[1]), SetVelocity(moved2, v[2])>>,
         fired |-> TRUE, normal |-> normal, divisors |-> v[3],
         penetrationDepth |-> penetrationDepth, separation |-> separation]

\* the broad phase of checkAndResolveObjectCollision
AABBOverlap(obj1, obj2) ==
    \A a \in Axes :
        /\ RLe(GetWorldMin(obj1)[a], GetWorldMax(obj2)[a])
        /\ RGe(GetWorldMax(obj1)[a], GetWorldMin(obj2)[a])

\* (variant that asks both distances to be below the threshold)
SurfaceContact_Both(dist1, dist2) ==
    RLt(dist1, SurfaceThreshold) /\ RLt(dist2, SurfaceThreshold)

\* the narrow phase of checkAndResolveObjectCollision
SurfaceContact(dist1, dist2) ==
    RLt(dist1, SurfaceThreshold) \/ RLt(dist2, SurfaceThreshold)

\* Simulation::checkAndResolveObjectCollision
CheckAndResolveObjectCollision(obj1, obj2, dist1, dist2) ==
    IF AABBOverlap(obj1, obj2) /\ SurfaceContact(dist1, dist2)
    THEN ResolveObjectCollision(obj1, obj2, obj1.position, obj2.position,
                                dist1, dist2)
    ELSE [objects |-> <<obj1, obj2>>, fired |-> FALSE,
          normal |-> RawNormal(VZero), divisors |-> {},
          penetrationDepth |-> Zero, separation |-> Zero]

\* The loops of Simulation::handleMeshToMeshCollisions from pair (i, j) on.
\* The signed distances of a pair whose boxes overlap are inputs, so the
\* result is the set of outcomes over dists; log gets one entry per pair
\* that reaches checkAndResolveObjectCollision.
RECURSIVE MeshLoop(_, _, _, _, _)
MeshLoop(objs, log, i, j, dists) ==
    IF i >= Len(objs) THEN {[objects |-> objs, log |-> log]}
    ELSE IF j > Len(objs) THEN MeshLoop(objs, log, i + 1, i + 2, dists)
    ELSE IF \/ ~IsValid(objs[i]) \/ ~IsValid(objs[j])
            \/ (IsStatic(objs[i]) /\ IsStatic(objs[j]))
    THEN MeshLoop(objs, log, i, j + 1, dists)
    ELSE LET overlap == AABBOverlap(objs[i], objs[j])
             sampled == IF overlap THEN dists ELSE {<<Zero, Zero>>}
         IN  UNION {
               LET r == CheckAndResolveObjectCollision(objs[i], objs[j], d[1], d[2])
                   entry == [i |-> i, j |-> j, overlap |-> overlap,
                             dist1 |-> d[1], dist2 |-> d[2],
                             fired |-> r.fired, normal |-> r.normal,
                             divisors |-> r.divisors,
                             penetrationDepth |-> r.penetrationDepth,
                             separation |-> r.separation,
                             before |-> <<objs[i], objs[j]>>, after |-> r.objects]
               IN  MeshLoop([objs EXCEPT ![i] = r.objects[1], ![j] = r.objects[2]],
                            Append(log, entry), i, j + 1, dists)
               : d \in sampled }

\* Simulation::handleMeshToMeshCollisions
HandleMeshToMeshCollisions(objs, dists) == MeshLoop(objs, <<>>, 1, 2, dists)

(***************************************************************************)
(* Simulation: particles against meshes                                    *)
(***************************************************************************)
\* the worlds in which every sample of the particle-mesh step is logged
ProbeWorlds == {"probe"}

\* the response to one contact: the particle and the object as it leaves
\* them, and the entry of the log
Contact(p, n, objs, k, distance, g) ==
    LET normal == Normalize(g)
        r == CalculateCollisionResponse(p, objs[k], normal)
        push == RAdd(RSub(p.size, distance), PushOutEps)
        q == [p EXCEPT !.velocity = r.velocity,
                       !.position = VAdd(p.position, NormalTimes(normal, push))]
    IN  [particle |-> q, object |-> r.object,
         entry |-> [particle |-> n, object |-> k, distance |-> distance,
                    normal |-> normal, applied |-> TRUE,
                    divisors |-> r.divisors,
                    before |-> p, after |-> q,
                    objBefore |-> objs[k], objAfter |-> r.object]]

\* the log after an object was sampled without a response; such samples are
\* kept in the worlds of ProbeWorlds only
Sampled(log, p, n, objs, k, distance, g) ==
    IF world \in ProbeWorlds
    THEN Append(log, [particle |-> n, object |-> k, distance |-> distance,
                      normal |-> RawNormal(g), applied |-> FALSE,
                      divisors |-> {},
                      before |-> p, after |-> p,
                      objBefore |-> objs[k], objAfter |-> objs[k]])
    ELSE log

\* (variant in which an unusable gradient ends the search)
RECURSIVE ObjectLoop_StopsAtUnusable(_, _, _, _, _, _, _)
ObjectLoop_StopsAtUnusable(p, n, objs, k, log, dists, grads) ==
    IF k > Len(objs) THEN {[particle |-> p, objects |-> objs, log |-> log]}
    ELSE IF ~IsValid(objs[k])
    THEN ObjectLoop_StopsAtUnusable(p, n, objs, k + 1, log, dists, grads)
    ELSE UNION {
           IF RLt(distance, p.size)
           THEN UNION {
                  IF LengthGt(g, GradientEps)
                  THEN LET c == Contact(p, n, objs, k, distance, g)
                       IN  {[particle |-> c.particle,
                             objects |-> [objs EXCEPT ![k] = c.object],
                             log |-> Append(log, c.entry)]}
                  ELSE {[particle |-> p, objects |-> objs,
                         log |-> Sampled(log, p, n, objs, k, distance, g)]}
                  : g \in grads }
           ELSE ObjectLoop_StopsAtUnusable(
                    p, n, objs, k + 1,
                    Sampled(log, p, n, objs, k, distance, VZero), dists, grads)
           : distance \in dists }

\* The inner loop of handleMultipleCollisionObjectCollisions for particle
\* number n, from object k on.  p is the particle as the loop found it; the
\* distance and the gradient an object reports are inputs.  A gradient of
\* zero length stands for every gradient the length test rejects.  log gets
\* one entry per response applied (and per sample, see Sampled).
RECURSIVE ObjectLoop(_, _, _, _, _, _, _)
ObjectLoop(p, n, objs, k, log, dists, grads) ==
    IF k > Len(objs) THEN {[particle |-> p, objects |-> objs, log |-> log]}
    ELSE IF ~IsValid(objs[k]) THEN ObjectLoop(p, n, objs, k + 1, log, dists, grads)
    ELSE UNION {
           IF RLt(distance, p.size)
           THEN UNION {
                  IF LengthGt(g, GradientEps)
                  THEN LET c == Contact(p, n, objs, k, distance, g)
                       IN  {[particle |-> c.particle,
                             objects |-> [objs EXCEPT ![k] = c.object],
                             log |-> Append(log, c.entry)]}
                  ELSE ObjectLoop(p, n, objs, k + 1,
                                  Sampled(log, p, n, objs, k, distance, g),
                                  dists, grads)
                  : g \in grads }
           ELSE ObjectLoop(p, n, objs, k + 1,
                           Sampled(log, p, n, objs, k, distance, VZero),
                           dists, grads)
           : distance \in dists }

\* the outer loop of handleMultipleCollisionObjectCollisions from particle n on
RECURSIVE ParticleLoop(_, _, _, _, _, _)
ParticleLoop(ps, objs, n, log, dists, grads) ==
    IF n > Len(ps) THEN {[particles |-> ps, objects |-> objs, log |-> log]}
    ELSE UNION {
           ParticleLoop([ps EXCEPT ![n] = r.particle], r.objects, n + 1, r.log,
                        dists, grads)
           : r \in ObjectLoop(ps[n], n, objs, 1, log, dists, grads) }

\* Simulation::handleMultipleCollisionObjectCollisions
HandleMultipleCollisionObjectCollisions(ps, objs, dists, grads) ==
    IF objs = <<>> THEN {[particles |-> ps, objects |-> objs, log |-> <<>>]}
    ELSE ParticleLoop(ps, objs, 1, <<>>, dists, grads)

(***************************************************************************)
(* Bounds of the model and the inputs of each world                        *)
(***************************************************************************)
\* update calls made by the driver loop in the world without objects
MaxTicks == 2
\* particles asked of Simulation::initialize
MaxParticles == 1
\* objects given to Simulation::addCollisionObject
MaxObjects == 2
\* update calls of the bouncing-particle scenario
BounceTicks == 1000

\* The worlds, told apart by the variable world, which never changes:
\*  "sceneX"  objects whose centres lie on the X axis once integrated;
\*  "sceneD"  objects whose centres lie on the line along (3/5, 4/5, 0);
\*  "walls"   particles in a box without objects, several ticks;
\*  "bounce"  one particle in an empty box (scenario 3 of the specification);
\*  "objwalls" objects at the walls of the box, with no contact between them;
\*  "pairs"   small objects on the X axis: touching, apart, static, dynamic;
\*  "probe"   a particle among objects that do not touch each other;
\*  "runs"    two runs in boxes without objects, given the same calls;
\*  "object"  one CollisionObject and the calls of its interface;
\*  "transform" one CollisionObject, its setters and its matrix getters;
\*  "mesh"    a Mesh, a BVH and an SDF and the calls of their interfaces;
\*  "build"   a Mesh and the trees BVH::build makes of its triangles;
\*  "load"    objects loaded from OBJ files, then handed to the simulation;
\*  "edge"    bodies and a particle next to the max wall on X;
\*  "response" the two collision responses, called with particles and
\*            bodies of every kind of mass;
\*  "system"  simulations constructed one after the other in one process,
\*            each with its box, and their initialize calls.
\* A scene runs one update call: after it the offsets between the centres
\* are no longer rational multiples of a unit vector.
SceneWorlds == {"sceneX", "sceneD"}

TicksOf(w) ==
    CASE w \in SceneWorlds \cup {"pairs", "probe", "load", "edge", "transform"} ->
           IF MaxTicks > 0 THEN 1 ELSE 0
      [] w \in {"walls", "objwalls", "runs", "object"} -> MaxTicks
      [] w = "bounce" -> BounceTicks

DeltaTimesOf(w) == IF w = "bounce" THEN {R(1, 100)} ELSE {R(1, 10)}

\* the boxes given to the constructor
UnitBox == [min |-> <<MinusOne, MinusOne, MinusOne>>, max |-> <<One, One, One>>]
FlatBox == [min |-> <<MinusOne, R(-3, 5), MinusOne>>, max |-> <<One, R(3, 5), One>>]
SmallBox ==
    [min |-> <<R(-1, 2), R(-1, 2), R(-1, 2)>>, max |-> <<R(1, 2), R(1, 2), R(1, 2)>>]
BoxesOf(w) ==
    IF w = "walls" THEN {UnitBox, FlatBox}
    ELSE IF w = "system" THEN {UnitBox, FlatBox, SmallBox}
    ELSE {UnitBox}

ParticleCountsOf(w) == IF w = "bounce" THEN {1} ELSE 0..MaxParticles
SpeedsOf(w) == IF w \in {"walls", "system"} THEN {One, R(5, 1)} ELSE {One}
SizesOf(w) == IF w \in {"walls", "system"} THEN {R(1, 10), R(6, 5)} ELSE {R(1, 10)}

\* the draws of getRandomPosition and getRandomDirection for one particle
DrawsOf(w) ==
    CASE w \in SceneWorlds ->
           {[position |-> <<Zero, Zero, Zero>>, direction |-> <<One, Zero, Zero>>],
            [position |-> <<R(1, 10), R(1, 5), Zero>>,
             direction |-> <<R(2, 3), R(-1, 3), R(2, 3)>>]}
      [] w \in {"walls", "runs"} ->
           {[position |-> <<R(4, 5), Zero, Zero>>, direction |-> <<One, Zero, Zero>>],
            [position |-> <<R(17, 20), R(17, 20), Zero>>,
             direction |-> <<R(3, 5), R(4, 5), Zero>>],
            [position |-> <<R(-17, 20), R(17, 20), R(-17, 20)>>,
             direction |-> <<R(-2, 3), R(1, 3), R(-2, 3)>>],
            [position |-> <<R(9, 10), Zero, R(1, 2)>>,
             direction |-> <<MinusOne, Zero, Zero>>]}
      [] w \in {"bounce", "objwalls", "pairs", "probe", "load"} ->
           {[position |-> VZero, direction |-> <<One, Zero, Zero>>]}
      [] w = "system" ->
           {[position |-> VZero, direction |-> <<One, Zero, Zero>>],
            [position |-> <<R(1, 4), R(-1, 4), R(1, 4)>>,
             direction |-> <<R(-2, 3), R(1, 3), R(-2, 3)>>],
            [position |-> <<R(4, 5), Zero, Zero>>, direction |-> <<One, Zero, Zero>>],
            [position |-> <<R(17, 20), R(17, 20), Zero>>,
             direction |-> <<R(3, 5), R(4, 5), Zero>>],
            [position |-> <<R(-17, 20), R(17, 20), R(-17, 20)>>,
             direction |-> <<R(-2, 3), R(1, 3), R(-2, 3)>>]}
      [] w = "edge" ->
           {\* reaches the max wall on X in the first tick
            [position |-> <<R(4, 5), Zero, Zero>>, direction |-> <<One, Zero, Zero>>],
            \* drawn within a radius of that wall, heading away from it
            [position |-> <<R(49, 50), Zero, Zero>>,
             direction |-> <<R(-3, 5), R(4, 5), Zero>>],
            \* drawn in the corner of the max walls on X and Y, heading away
            \* from the first and towards the second
            [position |-> <<R(49, 50), R(9, 10), Zero>>,
             direction |-> <<R(-3, 5), R(4, 5), Zero>>]}

\* a cube mesh of half edge h, loaded, given a mass and a velocity, and
\* placed so that the first updatePhysics, with deltaT, lands it on centre
Body(h, mass, centre, velocity, deltaT) ==
    SetVelocity(SetPosition(SetMass(
        LoadFromOBJ(NewObject, TRUE, <<RNeg(h), RNeg(h), RNeg(h)>>, <<h, h, h>>),
        mass),
        IF RGt(mass, Zero) THEN VSub(centre, VScale(velocity, deltaT)) ELSE centre),
        velocity)

\* the objects handed to addCollisionObject
ObjectInputsOf(w) ==
    CASE w = "sceneX" ->
           {Body(R(1, 4), One, <<R(-1, 5), Zero, Zero>>, <<One, Zero, Zero>>,
                 R(1, 10)),
            Body(R(1, 4), One, <<R(1, 5), Zero, Zero>>, <<MinusOne, Zero, Zero>>,
                 R(1, 10)),
            Body(R(1, 4), Zero, <<R(1, 5), Zero, Zero>>, VZero, R(1, 10))}
      [] w = "sceneD" ->
           {Body(R(1, 2), One, <<R(-6, 25), R(-8, 25), Zero>>, <<One, One, Zero>>,
                 R(1, 10)),
            Body(R(1, 2), R(2, 1), <<R(6, 25), R(8, 25), Zero>>,
                 <<MinusOne, Zero, Zero>>, R(1, 10)),
            Body(R(1, 2), Zero, VZero, VZero, R(1, 10))}
      [] w = "objwalls" ->
           {\* passes the max wall on X
            Body(R(1, 4), One, <<R(4, 5), Zero, Zero>>, <<One, Zero, Zero>>,
                 R(1, 10)),
            \* touches the min wall on X and the max wall on Y
            Body(R(1, 4), One, <<R(-3, 4), R(3, 4), Zero>>,
                 <<One, R(-2, 1), Zero>>, R(1, 10)),
            \* wider than the box
            Body(R(6, 5), One, VZero, <<MinusOne, Zero, R(1, 2)>>, R(1, 10)),
            \* stretched along X, at rest
            SetScale(Body(R(1, 4), R(2, 1), <<R(3, 5), Zero, Zero>>, VZero,
                          R(1, 10)),
                     <<Two, One, One>>),
            \* static, across the max wall on X
            Body(R(1, 4), Zero, <<R(9, 10), Zero, Zero>>, VZero, R(1, 10))}
      [] w = "pairs" ->
           {\* two dynamic bodies whose boxes share the face x = 0
            Body(R(1, 10), One, <<R(-1, 10), Zero, Zero>>, <<One, Zero, Zero>>,
                 R(1, 10)),
            Body(R(1, 10), One, <<R(1, 10), Zero, Zero>>, <<MinusOne, Zero, Zero>>,
                 R(1, 10)),
            \* a dynamic body away from the others
            Body(R(1, 10), One, <<R(1, 2), Zero, Zero>>, VZero, R(1, 10)),
            \* two static bodies
            Body(R(1, 10), Zero, VZero, VZero, R(1, 10)),
            Body(R(1, 10), Zero, <<R(1, 20), Zero, Zero>>, VZero, R(1, 10))}
      [] w = "probe" ->
           {Body(R(1, 4), Zero, VZero, VZero, R(1, 10)),
            Body(R(1, 4), One, <<R(1, 5), Zero, Zero>>, <<MinusOne, Zero, Zero>>,
                 R(1, 10)),
            Body(R(1, 4), R(2, 1), <<R(-1, 5), Zero, Zero>>, <<One, Zero, Zero>>,
                 R(1, 10))}
      [] w = "edge" ->
           {\* two dynamic bodies at rest whose boxes overlap, the second
            \* with a face on the max wall on X
            Body(R(1, 4), One, <<R(11, 20), Zero, Zero>>, VZero, R(1, 10)),
            Body(R(1, 4), One, <<R(3, 4), Zero, Zero>>, VZero, R(1, 10)),
            \* a static body with a face at x = 17/20, given a velocity
            Body(R(1, 2), Zero, <<R(7, 20), Zero, Zero>>, <<One, Zero, Zero>>,
                 R(1, 10))}
      [] OTHER -> {LoadFromOBJ(NewObject, FALSE, VZero, VZero)}

\* what the two centre samples of a pair with overlapping boxes may read
PairDistancesOf(w) ==
    IF w \in {"objwalls", "probe"} THEN {<<R(1, 2), R(1, 2)>>}
    ELSE IF w = "edge" THEN {<<R(1, 2), R(1, 2)>>, <<R(-1, 20), R(-1, 20)>>}
    ELSE {<<R(1, 2), R(1, 2)>>, <<R(-1, 100), R(1, 2)>>, <<R(1, 100), R(1, 100)>>,
          <<R(-1, 10), R(-1, 5)>>}

\* what an object's field may read at a particle
DistancesOf(w) ==
    IF w \in {"objwalls", "pairs"} THEN {R(1, 2)}
    ELSE IF w = "edge" THEN {R(1, 2), R(1, 20)}
    ELSE {R(1, 2), R(-1, 20)}

\* the gradients getNormal may return (unit, or unusable)
GradientsOf(w) ==
    IF w = "sceneD" THEN {<<R(1, 3), R(-2, 3), R(2, 3)>>, VZero}
    ELSE IF w = "edge" THEN {<<One, Zero, Zero>>, VZero}
    ELSE {<<MinusOne, Zero, Zero>>, VZero}

(***************************************************************************)
(* Operations                                                              *)
(***************************************************************************)
vars == <<world, boundsMin, boundsMax, particles, collisionObjects, pc,
          deltaTime, ticks, stepLog, boundsLog, meshLog, wallLog, hitLog, seen,
          trajectory, twin, mesh, root, sdf, answer, held, cache, statics>>

\* (variant that integrates and bounces the particles first)
UpdateOrder_ParticlesFirst ==
    <<"particleSystemUpdate", "handleWallCollisions", "updatePhysics",
      "updateCollisionObjectBounds", "handleMeshToMeshCollisions",
      "handleMultipleCollisionObjectCollisions">>

\* the order in which Simulation::update runs its sub-steps
UpdateOrder ==
    <<"updatePhysics", "updateCollisionObjectBounds", "handleMeshToMeshCollisions",
      "particleSystemUpdate", "handleWallCollisions",
      "handleMultipleCollisionObjectCollisions">>

NoObjects == [written |-> <<>>, read |-> <<>>, writtenAt |-> 0, readAt |-> 0]

\* the second run before its initialize; args are those of the first run
NoTwin == [args |-> <<>>, initialized |-> FALSE, particles |-> <<>>]

\* a Mesh before loadOBJ, a BVH before build, an SDF before
\* generateFromMesh, and no query yet
NoMesh ==
    [file |-> <<>>, loaded |-> FALSE, result |-> FALSE, triangles |-> <<>>,
     minBounds |-> VZero, maxBounds |-> VZero]
NoNode == [isLeaf |-> TRUE, built |-> FALSE]
NoSDF == [resolution |-> 0, data |-> <<>>]
NoAnswer == [query |-> "none"]
\* the distributions of getRandomPosition before its first call
NoStatics == [constructed |-> FALSE, min |-> VZero, max |-> VZero]

\* Simulation::Simulation
InitWorld(w) ==
    /\ world = w
    /\ \E box \in BoxesOf(w) : boundsMin = box.min /\ boundsMax = box.max
    /\ particles = <<>>
    /\ collisionObjects = IF w \in {"object", "transform"} THEN <<NewObject>>
                          ELSE <<>>
    /\ pc = 0
    /\ deltaTime = Zero
    /\ ticks = 0
    /\ stepLog = <<>>
    /\ boundsLog = <<>>
    /\ meshLog = <<>>
    /\ wallLog = <<>>
    /\ hitLog = <<>>
    /\ seen = NoObjects
    /\ trajectory = <<>>
    /\ twin = NoTwin
    /\ mesh = NoMesh
    /\ root = NoNode
    /\ sdf = NoSDF
    /\ answer = NoAnswer
    /\ held = NewObject
    /\ cache = NewCache
    /\ statics = NoStatics

Init == \E w \in SceneWorlds : InitWorld(w)
InitWalls == InitWorld("walls")
InitBounce == InitWorld("bounce")
InitObjectWalls == InitWorld("objwalls")
InitPairs == InitWorld("pairs")
InitProbe == InitWorld("probe")
InitRuns == InitWorld("runs")
InitEdge == InitWorld("edge")

\* v is a value the distributions over [lo, hi] can return
InBox(v, lo, hi) == \A a \in Axes : RLe(lo[a], v[a]) /\ RLe(v[a], hi[a])

\* ParticleSystem::getRandomPosition: its three distributions are statics of
\* the function, constructed by the first call that reaches them, from the
\* box of that call; st is the statics as the call finds them, and the
\* result the statics as it leaves them
GetRandomPosition(st, boxMin, boxMax) ==
    IF st.constructed THEN st
    ELSE [constructed |-> TRUE, min |-> boxMin, max |-> boxMax]

\* Simulation::initialize; in the world "system" it is also called again
\* on a simulation that has particles
Initialize ==
    /\ pc = 0 /\ ticks = 0 /\ (particles = <<>> \/ world = "system")
    /\ \E n \in ParticleCountsOf(world), speed \in SpeedsOf(world),
          size \in SizesOf(world) :
         LET st == IF n > 0 THEN GetRandomPosition(statics, boundsMin, boundsMax)
                   ELSE statics
         IN  \E draw \in [1..n -> {d \in DrawsOf(world) :
                                      InBox(d.position, st.min, st.max)}] :
               /\ particles' = SetParticleSize(
                      [i \in 1..n |->
                          NewParticle(draw[i].position,
                                      VScale(draw[i].direction, speed),
                                      InitialParticleSize, InitialParticleMass)],
                      size)
               /\ statics' = st
               /\ trajectory' = IF n > 0 THEN <<draw[1].position>> ELSE <<>>
               /\ twin' = IF world = "runs"
                          THEN [twin EXCEPT !.args = <<n, speed, size>>] ELSE twin
               /\ answer' = IF world = "system"
                            THEN [query |-> "initialize", numParticles |-> n]
                            ELSE answer
    /\ UNCHANGED <<held, cache, mesh, root, sdf, world, boundsMin, boundsMax,
                   collisionObjects, pc, deltaTime, ticks, stepLog, boundsLog,
                   meshLog, wallLog, hitLog, seen>>

\* Simulation::initialize of the second run, with the arguments of the
\* first; its generators are seeded by their own std::random_device, so its
\* draws are its own
InitializeTwin ==
    /\ pc = 0 /\ ticks = 0 /\ twin.args # <<>> /\ ~twin.initialized
    /\ \E draw \in [1..twin.args[1] -> DrawsOf(world)] :
         twin' = [twin EXCEPT
                    !.initialized = TRUE,
                    !.particles = SetParticleSize(
                        [i \in 1..twin.args[1] |->
                            NewParticle(draw[i].position,
                                        VScale(draw[i].direction, twin.args[2]),
                                        InitialParticleSize, InitialParticleMass)],
                        twin.args[3])]
    /\ UNCHANGED <<outside, mesh, root, sdf, answer, world, boundsMin, boundsMax, particles, collisionObjects, pc,
                   deltaTime, ticks, stepLog, boundsLog, meshLog, wallLog, hitLog,
                   seen, trajectory>>

\* Simulation::Simulation of a further simulation of the same process, which
\* takes the place of the one before it
Construct ==
    /\ world = "system" /\ pc = 0
    /\ \E box \in BoxesOf(world) : boundsMin' = box.min /\ boundsMax' = box.max
    /\ particles' = <<>>
    /\ collisionObjects' = <<>>
    /\ trajectory' = <<>>
    /\ answer' = [query |-> "Simulation"]
    /\ UNCHANGED <<outside, mesh, root, sdf, world, pc, deltaTime, ticks, stepLog,
                   boundsLog, meshLog, wallLog, hitLog, seen, twin>>

\* Simulation::addCollisionObject
AddCollisionObject ==
    /\ pc = 0 /\ ticks = 0 /\ Len(collisionObjects) < MaxObjects
    /\ \E o \in ObjectInputsOf(world) :
         \* the bodies of a scene are distinct
         /\ \A i \in 1..Len(collisionObjects) : collisionObjects[i] # o
         /\ collisionObjects' = IF IsValid(o) THEN Append(collisionObjects, o)
                                ELSE collisionObjects
    /\ UNCHANGED <<outside, mesh, root, sdf, answer, world, boundsMin, boundsMax, particles, pc, deltaTime, ticks,
                   stepLog, boundsLog, meshLog, wallLog, hitLog, seen,
                   trajectory, twin>>

\* the call of Simulation::update
BeginUpdate ==
    /\ pc = 0 /\ ticks < TicksOf(world)
    /\ \E dt \in DeltaTimesOf(world) : deltaTime' = dt
    /\ pc' = 1
    /\ stepLog' = <<>> /\ boundsLog' = <<>> /\ meshLog' = <<>>
    /\ wallLog' = <<>> /\ hitLog' = <<>>
    /\ seen' = NoObjects
    /\ UNCHANGED <<outside, mesh, root, sdf, answer, world, boundsMin, boundsMax, particles, collisionObjects,
                   ticks, trajectory, twin>>

\* what every sub-step does to the position in update
Advance(name) ==
    /\ pc \in 1..Len(UpdateOrder) /\ UpdateOrder[pc] = name
    /\ stepLog' = Append(stepLog, name)
    /\ pc' = IF pc = Len(UpdateOrder) THEN 0 ELSE pc + 1
    /\ ticks' = IF pc = Len(UpdateOrder) THEN ticks + 1 ELSE ticks
    /\ UNCHANGED <<outside, mesh, root, sdf, answer, world, boundsMin, boundsMax, deltaTime>>

\* the trajectory is extended when update returns
Track(ps) ==
    trajectory' = IF pc = Len(UpdateOrder) /\ ps # <<>>
                  THEN Append(trajectory, ps[1].position) ELSE trajectory

\* step 1: the loop over updatePhysics
StepUpdatePhysics ==
    /\ Advance("updatePhysics")
    /\ collisionObjects' =
         [i \in 1..Len(collisionObjects) |->
             IF IsValid(collisionObjects[i])
             THEN UpdatePhysics(collisionObjects[i], deltaTime)
             ELSE collisionObjects[i]]
    /\ Track(particles)
    /\ UNCHANGED <<particles, boundsLog, meshLog, wallLog, hitLog, seen, twin>>

\* step 2
StepObjectBounds ==
    /\ Advance("updateCollisionObjectBounds")
    /\ collisionObjects' =
         UpdateCollisionObjectBounds(collisionObjects, boundsMin, boundsMax)
    /\ boundsLog' = [i \in 1..Len(collisionObjects) |->
                        [before |-> collisionObjects[i],
                         after |-> collisionObjects'[i]]]
    /\ Track(particles)
    /\ UNCHANGED <<particles, meshLog, wallLog, hitLog, seen, twin>>

\* step 3
StepMeshToMesh ==
    /\ Advance("handleMeshToMeshCollisions")
    /\ \E r \in HandleMeshToMeshCollisions(collisionObjects,
                                           PairDistancesOf(world)) :
         /\ collisionObjects' = r.objects
         /\ meshLog' = r.log
         /\ seen' = [seen EXCEPT !.written = r.objects, !.writtenAt = ticks + 1]
    /\ Track(particles)
    /\ UNCHANGED <<particles, boundsLog, wallLog, hitLog, twin>>

\* step 4
StepParticleUpdate ==
    /\ Advance("particleSystemUpdate")
    /\ particles' = ParticleSystemUpdate(particles, deltaTime)
    /\ twin' = [twin EXCEPT !.particles = ParticleSystemUpdate(@, deltaTime)]
    /\ Track(particles')
    /\ UNCHANGED <<collisionObjects, boundsLog, meshLog, wallLog, hitLog, seen>>

\* step 5
StepWallCollisions ==
    /\ Advance("handleWallCollisions")
    /\ particles' = HandleWallCollisions(particles, boundsMin, boundsMax)
    /\ wallLog' = [i \in 1..Len(particles) |->
                      [before |-> particles[i], after |-> particles'[i],
                       collision |-> CheckWallCollision(particles[i], boundsMin,
                                                        boundsMax).collision]]
    /\ twin' = [twin EXCEPT
                   !.particles = HandleWallCollisions(@, boundsMin, boundsMax)]
    /\ Track(particles')
    /\ UNCHANGED <<collisionObjects, boundsLog, meshLog, hitLog, seen>>

\* step 6
StepObjectCollisions ==
    /\ Advance("handleMultipleCollisionObjectCollisions")
    /\ \E r \in HandleMultipleCollisionObjectCollisions(
                    particles, collisionObjects,
                    DistancesOf(world), GradientsOf(world)) :
         /\ particles' = r.particles
         /\ collisionObjects' = r.objects
         /\ hitLog' = r.log
         /\ Track(r.particles)
    /\ seen' = [seen EXCEPT !.read = collisionObjects, !.readAt = ticks + 1]
    /\ UNCHANGED <<boundsLog, meshLog, wallLog, twin>>

Next ==
    \/ Initialize
    \/ AddCollisionObject
    \/ BeginUpdate
    \/ StepUpdatePhysics
    \/ StepObjectBounds
    \/ StepMeshToMesh
    \/ StepParticleUpdate
    \/ StepWallCollisions
    \/ StepObjectCollisions

Spec == Init /\ [][Next]_vars
SpecWalls == InitWalls /\ [][Next]_vars
SpecBounce == InitBounce /\ [][Next]_vars
SpecObjectWalls == InitObjectWalls /\ [][Next]_vars
SpecPairs == InitPairs /\ [][Next]_vars
SpecProbe == InitProbe /\ [][Next]_vars
SpecEdge == InitEdge /\ [][Next]_vars

\* two runs without objects: initialize of each, then the update calls
NextRuns ==
    \/ Initialize
    \/ InitializeTwin
    \/ BeginUpdate
    \/ StepUpdatePhysics
    \/ StepObjectBounds
    \/ StepMeshToMesh
    \/ StepParticleUpdate
    \/ StepWallCollisions
    \/ StepObjectCollisions

SpecRuns == InitRuns /\ [][NextRuns]_vars

\* simulations made one after the other, and their initialize calls
InitSystem == InitWorld("system")

NextSystem ==
    \/ Construct
    \/ Initialize

SpecSystem == InitSystem /\ [][NextSystem]_vars

(***************************************************************************)
(* One CollisionObject and the calls of its public interface               *)
(***************************************************************************)
\* the arguments the calls are given
PositionsOf == {VZero, <<One, Zero, Zero>>}
RotationsOf ==
    {<<One, Zero, Zero, Zero>>, <<Zero, One, Zero, Zero>>,
     <<Two, Zero, Zero, Zero>>, <<Zero, Zero, Zero, Zero>>}
ScalesOf ==
    {<<One, One, One>>, <<Two, R(1, 2), Two>>, <<Zero, One, One>>,
     <<MinusOne, One, One>>}
VelocitiesOf == {VZero, <<One, Zero, Zero>>}
MassesOf == {Zero, One, MinusOne}

InitObject == InitWorld("object")
InitTransform == InitWorld("transform")

\* the arguments given in the world "transform": a half turn about X, a
\* turn about X by a unit quaternion of rational components, a scale with
\* a component 0
TransformRotations ==
    {<<One, Zero, Zero, Zero>>, <<Zero, One, Zero, Zero>>,
     <<R(3, 5), R(4, 5), Zero, Zero>>}
TransformScales == {<<One, One, One>>, <<Two, R(1, 2), Two>>, <<Zero, One, One>>}

\* a call that replaces the object; the getters alone return a matrix
ObjectCall(after) ==
    /\ world \in {"object", "transform"}
    /\ collisionObjects' = <<after>>
    /\ answer' = NoAnswer
    /\ UNCHANGED <<world, boundsMin, boundsMax, particles, pc, deltaTime,
                   stepLog, boundsLog, meshLog, wallLog, hitLog, seen,
                   trajectory, twin, mesh, root, sdf, held, statics>>

\* transformDirty = true
Dirtied == [cache EXCEPT !.transformDirty = TRUE]

ObjectLoadFromOBJ ==
    /\ \E ok \in BOOLEAN :
         /\ ObjectCall(LoadFromOBJ(collisionObjects[1], ok,
                                   <<R(-1, 2), R(-1, 2), R(-1, 2)>>,
                                   <<R(1, 2), R(1, 2), R(1, 2)>>))
         /\ cache' = IF ok THEN Dirtied ELSE cache
    /\ UNCHANGED ticks

ObjectSetPosition ==
    /\ \E position \in PositionsOf :
         ObjectCall(SetPosition(collisionObjects[1], position))
    /\ cache' = Dirtied
    /\ UNCHANGED ticks

ObjectSetRotation ==
    /\ \E rotation \in IF world = "transform" THEN TransformRotations
                        ELSE RotationsOf :
         ObjectCall(SetRotation(collisionObjects[1], rotation))
    /\ cache' = Dirtied
    /\ UNCHANGED ticks

ObjectSetScale ==
    /\ \E scale \in IF world = "transform" THEN TransformScales ELSE ScalesOf :
         ObjectCall(SetScale(collisionObjects[1], scale))
    /\ cache' = Dirtied
    /\ UNCHANGED ticks

ObjectSetVelocity ==
    /\ \E velocity \in VelocitiesOf :
         ObjectCall(SetVelocity(collisionObjects[1], velocity))
    /\ UNCHANGED <<ticks, cache>>

ObjectSetMass ==
    /\ \E m \in MassesOf : ObjectCall(SetMass(collisionObjects[1], m))
    /\ UNCHANGED <<ticks, cache>>

\* at most TicksOf calls, so that the positions stay in a finite set;
\* updatePhysics calls setPosition when it moves the object
ObjectUpdatePhysics ==
    /\ ticks < TicksOf(world)
    /\ \E dt \in DeltaTimesOf(world) :
         /\ ObjectCall(UpdatePhysics(collisionObjects[1], dt))
         /\ cache' = IF ~IsStatic(collisionObjects[1]) /\ RGt(dt, Zero)
                     THEN Dirtied ELSE cache
    /\ ticks' = ticks + 1

\* CollisionObject::getTransformMatrix
ObjectGetTransformMatrix ==
    /\ world = "transform"
    /\ cache' = UpdateTransformCache(cache, collisionObjects[1])
    /\ answer' = [query |-> "getTransformMatrix",
                  value |-> cache'.transformMatrix]
    /\ UNCHANGED <<world, simulation, mesh, root, sdf, held, statics>>

\* CollisionObject::getInverseTransformMatrix
ObjectGetInverseTransformMatrix ==
    /\ world = "transform"
    /\ cache' = UpdateTransformCache(cache, collisionObjects[1])
    /\ answer' = [query |-> "getInverseTransformMatrix",
                  value |-> cache'.inverseTransformMatrix]
    /\ UNCHANGED <<world, simulation, mesh, root, sdf, held, statics>>

NextObject ==
    \/ ObjectLoadFromOBJ
    \/ ObjectSetPosition
    \/ ObjectSetRotation
    \/ ObjectSetScale
    \/ ObjectSetVelocity
    \/ ObjectSetMass
    \/ ObjectUpdatePhysics

\* the calls that assign the position, the rotation or the scale, and the
\* two getters of the cached matrices
NextTransform ==
    \/ ObjectLoadFromOBJ
    \/ ObjectSetPosition
    \/ ObjectSetRotation
    \/ ObjectSetScale
    \/ ObjectSetVelocity
    \/ ObjectUpdatePhysics
    \/ ObjectGetTransformMatrix
    \/ ObjectGetInverseTransformMatrix

SpecTransform == InitTransform /\ [][NextTransform]_vars

SpecObject == InitObject /\ [][NextObject]_vars

(***************************************************************************)
(* Mesh::loadOBJ.  A file is a sequence of lines; a line is its prefix and  *)
(* what follows it: the three numbers of a "v" line, or the tokens of an   *)
(* "f" line, each a sequence of characters.  The normal of a triangle is    *)
(* not modelled: neither the BVH nor the SDF reads it.                      *)
(***************************************************************************)
DigitValue(c) ==
    CASE c = "0" -> 0 [] c = "1" -> 1 [] c = "2" -> 2 [] c = "3" -> 3
      [] c = "4" -> 4 [] c = "5" -> 5 [] c = "6" -> 6 [] c = "7" -> 7
      [] c = "8" -> 8 [] c = "9" -> 9 [] OTHER -> -1

\* the number of leading digits of str from position k on
RECURSIVE LeadingDigits(_, _)
LeadingDigits(str, k) ==
    IF k > Len(str) \/ DigitValue(str[k]) < 0 THEN 0
    ELSE 1 + LeadingDigits(str, k + 1)

RECURSIVE DigitsValue(_, _, _)
DigitsValue(str, k, acc) ==
    IF k > Len(str) THEN acc
    ELSE DigitsValue(str, k + 1, 10 * acc + DigitValue(str[k]))

\* std::stoi: an optional sign, then the longest run of digits; without a
\* digit it throws std::invalid_argument (ok is FALSE)
StoI(str) ==
    LET signed == Len(str) > 0 /\ str[1] \in {"-", "+"}
        body == IF signed THEN Tail(str) ELSE str
        n == LeadingDigits(body, 1)
        magnitude == DigitsValue(SubSeq(body, 1, n), 1, 0)
    IN  [ok |-> n > 0,
         value |-> IF signed /\ str[1] = "-" THEN -magnitude ELSE magnitude]

\* vertex_str.substr(0, vertex_str.find('/'))
RECURSIVE BeforeSlash(_, _)
BeforeSlash(str, k) ==
    IF k > Len(str) \/ str[k] = "/" THEN SubSeq(str, 1, k - 1)
    ELSE BeforeSlash(str, k + 1)

\* the zero-based indices of the tokens of an "f" line; ok is FALSE when
\* std::stoi throws on one of them
RECURSIVE FaceIndices(_, _, _)
FaceIndices(tokens, k, face) ==
    IF k > Len(tokens) THEN [ok |-> TRUE, face |-> face]
    ELSE LET parsed == StoI(BeforeSlash(tokens[k], 1))
         IN  IF ~parsed.ok THEN [ok |-> FALSE, face |-> face]
             ELSE FaceIndices(tokens, k + 1, Append(face, parsed.value - 1))

\* the loop over the lines of the file
RECURSIVE ParseLines(_, _, _, _)
ParseLines(file, k, vertices, faces) ==
    IF k > Len(file) THEN [ok |-> TRUE, vertices |-> vertices, faces |-> faces]
    ELSE LET prefix == file[k][1]
             rest == file[k][2]
         IN  CASE prefix = "v" ->
                    ParseLines(file, k + 1,
                               IF Len(rest) >= 3
                               THEN Append(vertices, <<rest[1], rest[2], rest[3]>>)
                               ELSE vertices,
                               faces)
               [] prefix = "f" ->
                    LET parsed == FaceIndices(rest, 1, <<>>)
                    IN  IF ~parsed.ok
                        THEN [ok |-> FALSE, vertices |-> vertices, faces |-> faces]
                        ELSE ParseLines(file, k + 1, vertices,
                                        IF Len(parsed.face) >= 3
                                        THEN Append(faces, parsed.face)
                                        ELSE faces)
               [] OTHER -> ParseLines(file, k + 1, vertices, faces)

NewTriangle(v0, v1, v2) == [v0 |-> v0, v1 |-> v1, v2 |-> v2]

\* (variant whose fan walks the boundary: i-1, i, i+1)
FanTriangle_Strip(vertices, face, i) ==
    NewTriangle(vertices[face[i] + 1], vertices[face[i + 1] + 1],
                vertices[face[i + 2] + 1])

\* the triangle of the fan of face at loop index i (the indices of face
\* are zero-based, the sequences of the model one-based)
FanTriangle(vertices, face, i) ==
    NewTriangle(vertices[face[1] + 1], vertices[face[i + 1] + 1],
                vertices[face[i + 2] + 1])

\* the loops over the faces and over i = 1 .. face.size() - 2; ok is FALSE
\* when an index is out of bounds, and the triangles are those pushed so far
RECURSIVE Triangulate(_, _, _, _, _)
Triangulate(vertices, faces, f, i, triangles) ==
    IF f > Len(faces) THEN [ok |-> TRUE, triangles |-> triangles]
    ELSE IF i > Len(faces[f]) - 2
         THEN Triangulate(vertices, faces, f + 1, 1, triangles)
         ELSE LET idx == <<faces[f][1], faces[f][i + 1], faces[f][i + 2]>>
              IN  IF \E j \in 1..3 : idx[j] < 0 \/ idx[j] >= Len(vertices)
                  THEN [ok |-> FALSE, triangles |-> triangles]
                  ELSE Triangulate(vertices, faces, f, i + 1,
                                   Append(triangles,
                                          FanTriangle(vertices, faces[f], i)))

TriangleVertices(tri) == {tri.v0, tri.v1, tri.v2}

\* the box of the vertices of the triangles numbered by indices
BoundsOf(triangles, indices) ==
    LET points == UNION {TriangleVertices(triangles[i]) : i \in indices}
        Least(a) == CHOOSE x \in {p[a] : p \in points} :
                        \A q \in points : RLe(x, q[a])
        Most(a) == CHOOSE x \in {p[a] : p \in points} :
                        \A q \in points : RGe(x, q[a])
    IN  [min |-> <<Least(1), Least(2), Least(3)>>,
         max |-> <<Most(1), Most(2), Most(3)>>]

\* Mesh::computeBounds, which leaves the bounds alone without triangles
ComputeBounds(m) ==
    IF m.triangles = <<>> THEN m
    ELSE LET box == BoundsOf(m.triangles, 1..Len(m.triangles))
         IN  [m EXCEPT !.minBounds = box.min, !.maxBounds = box.max]

\* Mesh::loadOBJ on the mesh m; result is what it returns
LoadOBJ(m, file) ==
    LET parsed == ParseLines(file, 1, <<>>, <<>>)
        fans == Triangulate(parsed.vertices, parsed.faces, 1, 1, <<>>)
        called == [m EXCEPT !.file = file, !.loaded = TRUE]
    IN  IF ~parsed.ok THEN [called EXCEPT !.result = FALSE]
        ELSE IF ~fans.ok
             THEN [called EXCEPT !.result = FALSE, !.triangles = fans.triangles]
             ELSE ComputeBounds([called EXCEPT !.result = TRUE,
                                               !.triangles = fans.triangles])

(***************************************************************************)
(* BVH.  A distance is held as its square, which orders distances as the   *)
(* distances themselves; FloatMax stands above every distance.             *)
(***************************************************************************)
\* at most this many triangles make a leaf, at any depth beyond MaxDepth too
LeafSize == 4
MaxDepth == 20

FloatMax == <<1, 0>>
DLt(a, b) == IF a = FloatMax THEN FALSE ELSE IF b = FloatMax THEN TRUE ELSE RLt(a, b)
DGe(a, b) == ~DLt(a, b)
DMin(a, b) == IF DLt(b, a) THEN b ELSE a

\* n1/d1 < n2/d2 for positive integers, by the integer parts and then the
\* remainders, so that no product is formed
RECURSIVE LessFraction(_, _, _, _)
LessFraction(n1, d1, n2, d2) ==
    IF n1 \div d1 # n2 \div d2 THEN n1 \div d1 < n2 \div d2
    ELSE IF n2 % d2 = 0 THEN FALSE
    ELSE IF n1 % d1 = 0 THEN TRUE
    ELSE LessFraction(d2, n2 % d2, d1, n1 % d1)

\* a < b for fractions that are not negative
Less(a, b) ==
    IF b[1] = 0 THEN FALSE
    ELSE IF a[1] = 0 THEN TRUE
    ELSE LessFraction(a[1], a[2], b[1], b[2])

Cross(a, b) ==
    <<RSub(RMul(a[2], b[3]), RMul(a[3], b[2])),
      RSub(RMul(a[3], b[1]), RMul(a[1], b[3])),
      RSub(RMul(a[1], b[2]), RMul(a[2], b[1]))>>
Length2(v) == VDot(v, v)
Clamp(x, lo, hi) == RMin(RMax(x, lo), hi)

\* BVH::computeCentroid
ComputeCentroid(tri) == VScale(VAdd(VAdd(tri.v0, tri.v1), tri.v2), R(1, 3))

\* the axis of the longest extent of the box
LongestAxis(box) ==
    LET extent == VSub(box.max, box.min)
        axis == IF RGt(extent[2], extent[1]) THEN 2 ELSE 1
    IN  IF RGt(extent[3], extent[axis]) THEN 3 ELSE axis

\* std::sort by the centroid along axis: the orders of the set of indices
\* that it may leave (triangles with equal keys come in any order)
RECURSIVE SortedOrders(_, _, _)
SortedOrders(triangles, indices, axis) ==
    IF indices = {} THEN {<<>>}
    ELSE LET Key(i) == ComputeCentroid(triangles[i])[axis]
             firsts == {i \in indices : \A j \in indices : ~RLt(Key(j), Key(i))}
         IN  UNION {{<<i>> \o rest :
                        rest \in SortedOrders(triangles, indices \ {i}, axis)} :
                    i \in firsts}

\* (variant whose box is that of the first vertex of each triangle)
BoxOfNode_FirstVertex(triangles, indices) ==
    LET points == {triangles[indices[k]].v0 : k \in 1..Len(indices)}
        Least(a) == CHOOSE x \in {p[a] : p \in points} :
                        \A q \in points : RLe(x, q[a])
        Most(a) == CHOOSE x \in {p[a] : p \in points} :
                        \A q \in points : RGe(x, q[a])
    IN  [min |-> <<Least(1), Least(2), Least(3)>>,
         max |-> <<Most(1), Most(2), Most(3)>>]

\* the box buildRecursive computes over the vertices of its triangles
BoxOfNode(triangles, indices) ==
    IF indices = <<>>
    THEN [min |-> <<FloatMax, FloatMax, FloatMax>>,
          max |-> <<RNeg(FloatMax), RNeg(FloatMax), RNeg(FloatMax)>>]
    ELSE BoundsOf(triangles, {indices[k] : k \in 1..Len(indices)})

\* (variant that makes a leaf on the number of triangles alone)
RECURSIVE BuildRecursive_SizeOnly(_, _, _)
BuildRecursive_SizeOnly(triangles, indices, depth) ==
    LET box == BoxOfNode(triangles, indices)
        mid == Len(indices) \div 2
    IN  IF Len(indices) <= LeafSize
        THEN {[built |-> TRUE, isLeaf |-> TRUE, minBounds |-> box.min,
               maxBounds |-> box.max, triangleIndices |-> indices]}
        ELSE UNION
               {{[built |-> TRUE, isLeaf |-> FALSE, minBounds |-> box.min,
                  maxBounds |-> box.max, left |-> l, right |-> r] :
                    l \in BuildRecursive_SizeOnly(triangles, SubSeq(order, 1, mid),
                                                  depth + 1),
                    r \in BuildRecursive_SizeOnly(triangles,
                                                  SubSeq(order, mid + 1, Len(order)),
                                                  depth + 1)} :
                order \in SortedOrders(triangles,
                                       {indices[k] : k \in 1..Len(indices)},
                                       LongestAxis(box))}

\* BVH::buildRecursive: the trees it may return
RECURSIVE BuildRecursive(_, _, _)
BuildRecursive(triangles, indices, depth) ==
    LET box == BoxOfNode(triangles, indices)
        mid == Len(indices) \div 2
    IN  IF Len(indices) <= LeafSize \/ depth > MaxDepth
        THEN {[built |-> TRUE, isLeaf |-> TRUE, minBounds |-> box.min,
               maxBounds |-> box.max, triangleIndices |-> indices]}
        ELSE UNION
               {{[built |-> TRUE, isLeaf |-> FALSE, minBounds |-> box.min,
                  maxBounds |-> box.max, left |-> l, right |-> r] :
                    l \in BuildRecursive(triangles, SubSeq(order, 1, mid), depth + 1),
                    r \in BuildRecursive(triangles,
                                         SubSeq(order, mid + 1, Len(order)),
                                         depth + 1)} :
                order \in SortedOrders(triangles,
                                       {indices[k] : k \in 1..Len(indices)},
                                       LongestAxis(box))}

\* BVH::build
Build(triangles) ==
    BuildRecursive(triangles, [i \in 1..Len(triangles) |-> i], 0)

\* BVH::pointToAABBDistance
PointToAABBDistance(point, minBounds, maxBounds) ==
    LET closest == [a \in Axes |-> Clamp(point[a], minBounds[a], maxBounds[a])]
    IN  Length2(VSub(point, closest))

\* The closest point of a triangle, as SDF::pointToTriangleDistance and the
\* same code inlined in the leaf loop of findClosestDistanceRecursive find
\* it: the clamped parameters s and t along the three edges,
OnEdge0(d, a) == <<Clamp(RDiv(RNeg(d), a), Zero, One), Zero>>
OnEdge1(e, c) == <<Zero, Clamp(RDiv(RNeg(e), c), Zero, One)>>
ClampedOnEdge2(s) == <<s, RSub(One, s)>>
OnEdge2(numer, denom) == ClampedOnEdge2(Clamp(RDiv(numer, denom), Zero, One))

\* the region of the plane that (s, t) falls in, and s and t there,
Barycentric(a, b, c, d, e, det, s, t) ==
    IF RLt(RAdd(s, t), det)
    THEN IF RLt(s, Zero)
         THEN IF RLt(t, Zero)
              THEN IF RLt(d, Zero) THEN OnEdge0(d, a) ELSE OnEdge1(e, c)
              ELSE OnEdge1(e, c)
         ELSE IF RLt(t, Zero) THEN OnEdge0(d, a)
              ELSE <<RDiv(s, det), RDiv(t, det)>>
    ELSE IF RLt(s, Zero)
         THEN IF RGt(RAdd(c, e), RAdd(b, d))
              THEN OnEdge2(RSub(RAdd(c, e), RAdd(b, d)),
                           RAdd(RSub(a, RMul(Two, b)), c))
              ELSE OnEdge1(e, c)
         ELSE IF RLt(t, Zero)
              THEN IF RGt(RAdd(a, d), RAdd(b, e))
                   THEN OnEdge2(RSub(RSub(RAdd(c, e), b), d),
                                RAdd(RSub(a, RMul(Two, b)), c))
                   ELSE OnEdge0(d, a)
              ELSE OnEdge2(RSub(RSub(RAdd(c, e), b), d),
                           RAdd(RSub(a, RMul(Two, b)), c))

\* the fractions and the vectors of three fractions
Rational == Int \X Int
Vector == Rational \X Rational \X Rational

\* det, s and t from the five dot products,
BarycentricOfDots[a \in Rational, b \in Rational, c \in Rational,
                  d \in Rational, e \in Rational] ==
    Barycentric(a, b, c, d, e, RSub(RMul(a, c), RMul(b, b)),
                RSub(RMul(b, e), RMul(c, d)), RSub(RMul(b, d), RMul(a, e)))

\* the dot products from the edges and v0 = triangle.v0 - point,
BarycentricOfEdges[edge0 \in Vector, edge1 \in Vector, v0 \in Vector] ==
    BarycentricOfDots[VDot(edge0, edge0), VDot(edge0, edge1), VDot(edge1, edge1),
                      VDot(edge0, v0), VDot(edge1, v0)]

\* and the point at (s, t)
PointAt[origin \in Vector, edge0 \in Vector, edge1 \in Vector,
        st \in Rational \X Rational] ==
    VAdd(origin, VAdd(VScale(edge0, st[1]), VScale(edge1, st[2])))

ClosestPoint[origin \in Vector, edge0 \in Vector, edge1 \in Vector, v0 \in Vector] ==
    PointAt[origin, edge0, edge1, BarycentricOfEdges[edge0, edge1, v0]]

\* the square of glm::length(p - q)
Distance2[p \in Vector, q \in Vector] == Length2(VSub(p, q))

\* SDF::pointToTriangleDistance
PointToTriangleDistance(point, tri) ==
    Distance2[point,
              ClosestPoint[tri.v0, VSub(tri.v1, tri.v0), VSub(tri.v2, tri.v0),
                           VSub(tri.v0, point)]]

\* the square of the longest edge of the triangle
MaxEdge(tri) ==
    RMax(RMax(Length2(VSub(tri.v1, tri.v0)), Length2(VSub(tri.v2, tri.v1))),
         Length2(VSub(tri.v0, tri.v2)))

\* sqrt(A) - sqrt(B) >= sqrt(C) for squares A, B > 0 and C, given
\* x = A - B - C: it holds iff x >= 0 and x^2 >= 4 * B * C, that is
\* x / B >= 4 * C / x where x > 0
RootsApart(x, B, C) ==
    IF x[1] <= 0 THEN x = Zero /\ C = Zero
    ELSE ~Less(RDiv(x, B), RDiv(RMul(R(4, 1), C), x))

SphereTest(A, B, minDist) == RootsApart(RSub(RSub(A, B), minDist), B, minDist)

\* the quick reject of the leaf loop: sphereDist >= minDist, where
\* sphereDist = |point - center| - 0.6 * maxEdge
SphereReject(point, tri, minDist) ==
    IF minDist = FloatMax THEN FALSE
    ELSE SphereTest(Length2(VSub(point, ComputeCentroid(tri))),
                    RMul(R(9, 25), MaxEdge(tri)), minDist)

\* the loop over the triangles of a leaf, from the k-th on
RECURSIVE LeafLoop(_, _, _, _, _)
LeafLoop(point, triangles, indices, k, minDist) ==
    IF k > Len(indices) THEN minDist
    ELSE IF SphereReject(point, triangles[indices[k]], minDist)
         THEN LeafLoop(point, triangles, indices, k + 1, minDist)
         ELSE LeafLoop(point, triangles, indices, k + 1,
                       DMin(minDist,
                            PointToTriangleDistance(point, triangles[indices[k]])))

\* what findClosestDistanceRecursive returns and what it leaves in
\* bestDistance, which it takes by reference: for a node it does not enter,
Pruned(bestDistance) == [value |-> FloatMax, bestDistance |-> bestDistance]
\* for a leaf,
LeafResult(bestDistance, minDist) ==
    [value |-> minDist, bestDistance |-> DMin(bestDistance, minDist)]
\* and for an inner node, from the results of its two children
InnerResult(first, second) ==
    [value |-> DMin(first.value, second.value),
     bestDistance |-> second.bestDistance]

RECURSIVE FindClosestDistanceRecursive(_, _, _, _)
RECURSIVE VisitSecond(_, _, _, _, _)
RECURSIVE VisitChildren(_, _, _, _, _, _, _)

\* the child whose box is farther, after the nearer gave first
VisitSecond(point, triangles, far, farDist, first) ==
    IF DLt(farDist, first.bestDistance)
    THEN InnerResult(first,
                     FindClosestDistanceRecursive(point, triangles, far,
                                                  first.bestDistance))
    ELSE InnerResult(first, Pruned(first.bestDistance))

\* the two children, the one whose box is nearer first
VisitChildren(point, triangles, near, nearDist, far, farDist, bestDistance) ==
    VisitSecond(point, triangles, far, farDist,
                IF DLt(nearDist, bestDistance)
                THEN FindClosestDistanceRecursive(point, triangles, near,
                                                  bestDistance)
                ELSE Pruned(bestDistance))

\* the children of node in the order of the distances of their boxes
InnerNode(point, triangles, node, bestDistance, leftAABBDist, rightAABBDist) ==
    IF ~DLt(rightAABBDist, leftAABBDist)
    THEN VisitChildren(point, triangles, node.left, leftAABBDist,
                       node.right, rightAABBDist, bestDistance)
    ELSE VisitChildren(point, triangles, node.right, rightAABBDist,
                       node.left, leftAABBDist, bestDistance)

\* BVH::findClosestDistanceRecursive
FindClosestDistanceRecursive(point, triangles, node, bestDistance) ==
    IF DGe(PointToAABBDistance(point, node.minBounds, node.maxBounds),
           bestDistance)
    THEN Pruned(bestDistance)
    ELSE IF node.isLeaf
    THEN LeafResult(bestDistance,
                    LeafLoop(point, triangles, node.triangleIndices, 1,
                             bestDistance))
    ELSE InnerNode(point, triangles, node, bestDistance,
                   PointToAABBDistance(point, node.left.minBounds,
                                       node.left.maxBounds),
                   PointToAABBDistance(point, node.right.minBounds,
                                       node.right.maxBounds))

\* BVH::findClosestDistance
FindClosestDistance(point, triangles, node) ==
    IF ~node.built THEN FloatMax
    ELSE FindClosestDistanceRecursive(point, triangles, node, FloatMax).value

\* The floats of the slab test: a fraction, an infinity <<1, 0>> or
\* <<-1, 0>>, or the NaN <<0, 0>>, which compares false with everything.
IsNaN(x) == x = <<0, 0>>
XLt(a, b) ==
    IF IsNaN(a) \/ IsNaN(b) THEN FALSE
    ELSE IF a[2] = 0 /\ b[2] = 0 THEN a[1] < b[1]
    ELSE IF a[2] = 0 THEN a[1] < 0
    ELSE IF b[2] = 0 THEN b[1] > 0
    ELSE RLt(a, b)
XLe(a, b) == ~IsNaN(a) /\ ~IsNaN(b) /\ (XLt(a, b) \/ a = b)


\* glm::min and glm::max: (y < x) ? y : x and (x < y) ? y : x
GlmMin(x, y) == IF XLt(y, x) THEN y ELSE x
GlmMax(x, y) == IF XLt(x, y) THEN y ELSE x

\* std::max and std::min of an initializer list of three
StdMax(a, b, c) ==
    LET largest == IF XLt(a, b) THEN b ELSE a
    IN  IF XLt(largest, c) THEN c ELSE largest
StdMin(a, b, c) ==
    LET smallest == IF XLt(b, a) THEN b ELSE a
    IN  IF XLt(c, smallest) THEN c ELSE smallest

\* BVH::rayAABBIntersect
RayAABBIntersect(origin, direction, minBounds, maxBounds) ==
    LET t1 == [a \in Axes |-> TimesInverse(RSub(minBounds[a], origin[a]),
                                           direction[a])]
        t2 == [a \in Axes |-> TimesInverse(RSub(maxBounds[a], origin[a]),
                                           direction[a])]
        tmin == [a \in Axes |-> GlmMin(t1[a], t2[a])]
        tmax == [a \in Axes |-> GlmMax(t1[a], t2[a])]
        tNear == StdMax(tmin[1], tmin[2], tmin[3])
        tFar == StdMin(tmax[1], tmax[2], tmax[3])
    IN  XLe(tNear, tFar) /\ XLe(Zero, tFar)

\* the tolerance 1e-7 of the ray-triangle test is 1 / RayEpsilonInverse;
\* a fraction is compared with it by the quotient of its two integers
RayEpsilonInverse == 10000000
AboveEpsilon(x) == x[1] > 0 /\ x[2] \div x[1] < RayEpsilonInverse
AtLeastEpsilon(x) ==
    /\ x[1] > 0
    /\ \/ x[2] \div x[1] < RayEpsilonInverse
       \/ x[2] \div x[1] = RayEpsilonInverse /\ x[2] % x[1] = 0

\* the ray-triangle test of the leaf loop of countIntersectionsRecursive
RayHitsTriangle(point, direction, tri) ==
    LET edge1 == VSub(tri.v1, tri.v0)
        edge2 == VSub(tri.v2, tri.v0)
        h == Cross(direction, edge2)
        a == VDot(edge1, h)
        s == VSub(point, tri.v0)
        u == RDiv(VDot(s, h), a)
        q == Cross(s, edge1)
        v == RDiv(VDot(direction, q), a)
        t == RDiv(VDot(edge2, q), a)
    IN  /\ AtLeastEpsilon(RAbs(a))
        /\ ~(RLt(u, Zero) \/ RGt(u, One))
        /\ ~(RLt(v, Zero) \/ RGt(RAdd(u, v), One))
        /\ AboveEpsilon(t)

\* the number of the triangles indices[k..] that the ray hits
RECURSIVE CountLeaf(_, _, _, _, _)
CountLeaf(point, direction, triangles, indices, k) ==
    IF k > Len(indices) THEN 0
    ELSE (IF RayHitsTriangle(point, direction, triangles[indices[k]]) THEN 1 ELSE 0)
         + CountLeaf(point, direction, triangles, indices, k + 1)

\* BVH::countIntersectionsRecursive
RECURSIVE CountIntersectionsRecursive(_, _, _, _)
CountIntersectionsRecursive(point, direction, triangles, node) ==
    IF ~RayAABBIntersect(point, direction, node.minBounds, node.maxBounds) THEN 0
    ELSE IF node.isLeaf
         THEN CountLeaf(point, direction, triangles, node.triangleIndices, 1)
         ELSE CountIntersectionsRecursive(point, direction, triangles, node.left)
              + CountIntersectionsRecursive(point, direction, triangles, node.right)

\* BVH::countIntersections
CountIntersections(point, direction, triangles, node) ==
    IF ~node.built THEN 0
    ELSE CountIntersectionsRecursive(point, direction, triangles, node)

(***************************************************************************)
(* SDF.  A stored value is a distance with a sign: negative tells the sign  *)
(* and square is the square of the distance.                                *)
(***************************************************************************)
\* the ray of the inside test
RayDir == <<One, Zero, Zero>>

\* SDF::generateFromMesh, with bvh the tree that its bvh.build returned;
\* data[n] is the voxel of index n - 1
GenerateFromMesh(m, resolution, bvh) ==
    LET padding == VScale(VSub(m.maxBounds, m.minBounds), R(1, 10))
        minBounds == VSub(m.minBounds, padding)
        maxBounds == VAdd(m.maxBounds, padding)
        cellSize == VScale(VSub(maxBounds, minBounds), R(1, resolution - 1))
        Voxel(x, y, z) ==
            LET worldPos == <<RAdd(minBounds[1], RMul(R(x, 1), cellSize[1])),
                              RAdd(minBounds[2], RMul(R(y, 1), cellSize[2])),
                              RAdd(minBounds[3], RMul(R(z, 1), cellSize[3]))>>
                minDistance == FindClosestDistance(worldPos, m.triangles, bvh)
                intersections ==
                    CountIntersections(worldPos, RayDir, m.triangles, bvh)
            IN  [negative |-> intersections % 2 = 1, square |-> minDistance]
    IN  [resolution |-> resolution, minBounds |-> minBounds,
         maxBounds |-> maxBounds, cellSize |-> cellSize, bvh |-> bvh,
         data |-> [n \in 1..(resolution * resolution * resolution) |->
                      Voxel((n - 1) % resolution,
                            ((n - 1) \div resolution) % resolution,
                            (n - 1) \div (resolution * resolution))]]

\* SDF::getIndex
GetIndex(s, x, y, z) == z * s.resolution * s.resolution + y * s.resolution + x

\* (int) of a fraction that is not negative
Floor(x) == x[1] \div x[2]

\* the eight corners SDF::sample reads around position, each with the
\* weight that the three interpolations give it in the result
SampleTerms(s, position) ==
    LET top == R(s.resolution - 1, 1)
        gridPos == [a \in Axes |->
                      Clamp(RDiv(RSub(position[a], s.minBounds[a]), s.cellSize[a]),
                            Zero, top)]
        lo == [a \in Axes |-> Floor(gridPos[a])]
        hi == [a \in Axes |-> IF lo[a] + 1 < s.resolution - 1 THEN lo[a] + 1
                              ELSE s.resolution - 1]
        f == [a \in Axes |-> RSub(gridPos[a], R(lo[a], 1))]
        Weight(a, upper) == IF upper THEN f[a] ELSE RSub(One, f[a])
        At(a, upper) == IF upper THEN hi[a] ELSE lo[a]
    IN  {[corner |-> <<ux, uy, uz>>,
          weight |-> RMul(RMul(Weight(1, ux), Weight(2, uy)), Weight(3, uz)),
          value |-> s.data[GetIndex(s, At(1, ux), At(2, uy), At(3, uz)) + 1]] :
            ux \in BOOLEAN, uy \in BOOLEAN, uz \in BOOLEAN}

\* bounds of the square root of a fraction, one thousandth apart
SqrtBelow(q) == R(ISqrt((q[1] * 1000000) \div q[2]), 1000)
SqrtAbove(q) == RAdd(SqrtBelow(q), R(1, 1000))

\* the sum over the terms of weight * (a bound of the distance)
RECURSIVE SumBounds(_, _)
SumBounds(terms, above) ==
    IF terms = {} THEN Zero
    ELSE LET t == CHOOSE u \in terms : TRUE
             bound == IF above THEN SqrtAbove(t.value.square)
                      ELSE SqrtBelow(t.value.square)
         IN  RAdd(RMul(t.weight, bound), SumBounds(terms \ {t}, above))

\* the sign of the value SDF::sample returns: that of the sum of
\* weight * value over the corners.  One corner of each sign is compared by
\* the squares; more of them by sums bounded from both sides.
SampleSign(s, position) ==
    LET terms == {t \in SampleTerms(s, position) :
                     RGt(t.weight, Zero) /\ t.value.square # Zero}
        plus == {t \in terms : ~t.value.negative}
        minus == {t \in terms : t.value.negative}
        Square(t) == RMul(RMul(t.weight, t.weight), t.value.square)
        Only(side) == Square(CHOOSE t \in side : TRUE)
    IN  CASE minus = {} -> IF plus = {} THEN 0 ELSE 1
          [] minus # {} /\ plus = {} -> -1
          [] Cardinality(minus) = 1 /\ Cardinality(plus) = 1 ->
               IF RGt(Only(plus), Only(minus)) THEN 1
               ELSE IF RGt(Only(minus), Only(plus)) THEN -1 ELSE 0
          [] minus # {} /\ plus # {} /\ Cardinality(terms) > 2
               /\ RGt(SumBounds(plus, FALSE), SumBounds(minus, TRUE)) -> 1
          [] minus # {} /\ plus # {} /\ Cardinality(terms) > 2
               /\ RGt(SumBounds(minus, FALSE), SumBounds(plus, TRUE)) -> -1

(***************************************************************************)
(* The files, points and rays given to the Mesh, the BVH and the SDF        *)
(***************************************************************************)
\* the longest face of the polygon files
MaxFaceSize == 5
\* the finest grid asked of an SDF
MaxResolution == 3

\* the decimal digits of a natural number, as std::stoi reads them back
RECURSIVE Chars(_)
Chars(n) ==
    LET digit == <<"0", "1", "2", "3", "4", "5", "6", "7", "8", "9">>[(n % 10) + 1]
    IN  IF n < 10 THEN <<digit>> ELSE Append(Chars(n \div 10), digit)
Token(n) == IF n < 0 THEN <<"-">> \o Chars(-n) ELSE Chars(n)

VLine(x, y, z) == <<"v", <<R(x, 1), R(y, 1), R(z, 1)>>>>
FLine(tokens) == <<"f", tokens>>
Plain(face) == FLine([k \in 1..Len(face) |-> Token(face[k])])

\* n vertices in a plane, in convex position, and the face "f 1 2 ... n"
Polygon(n) ==
    [k \in 1..n |-> VLine(k - 1, (k - 1) * (k - 1), 0)]
    \o <<Plain([k \in 1..n |-> k])>>

\* a closed convex mesh of 8 triangles around the X axis, its apexes at
\* (30, 0, 0) and (-30, 0, 0); the centroids differ along X
Bipyramid ==
    <<VLine(30, 0, 0), VLine(-30, 0, 0), VLine(10, 15, 0), VLine(5, 0, 15),
      VLine(0, -15, 0), VLine(0, 0, -15),
      Plain(<<1, 3, 4>>), Plain(<<1, 4, 5>>), Plain(<<1, 5, 6>>),
      Plain(<<1, 6, 3>>), Plain(<<2, 3, 4>>), Plain(<<2, 4, 5>>),
      Plain(<<2, 5, 6>>), Plain(<<2, 6, 3>>)>>

\* a closed tetrahedron, the centre of its box inside it
Tetrahedron ==
    <<VLine(0, 0, 0), VLine(0, 0, 4), VLine(2, 4, 0), VLine(4, 2, 4),
      <<"#", <<>>>>,
      Plain(<<1, 2, 3>>), Plain(<<1, 2, 4>>), Plain(<<1, 3, 4>>),
      Plain(<<2, 3, 4>>)>>

\* a small triangle in the plane x = -3 and a long thin one with a corner
\* at the origin, with v/vt and v//vn tokens and a face of two indices
ThinPair ==
    <<VLine(-3, -1, -1), VLine(-3, 1, -1), VLine(-3, 0, 1),
      VLine(0, 0, 0), VLine(50, 20, 0), VLine(50, -20, 0),
      <<"vn", <<>>>>,
      FLine(<<Token(1) \o <<"/">> \o Token(1), Token(2) \o <<"/">> \o Token(2),
              Token(3) \o <<"/">> \o Token(3)>>),
      Plain(<<1, 2>>),
      FLine(<<Token(4) \o <<"/", "/">> \o Token(1),
              Token(5) \o <<"/", "/">> \o Token(1),
              Token(6) \o <<"/", "/">> \o Token(1)>>)>>

\* a square whose second face names a fifth vertex
OutOfRange ==
    <<VLine(0, 0, 0), VLine(2, 0, 0), VLine(2, 2, 0), VLine(0, 2, 0),
      Plain(<<1, 2, 3>>), Plain(<<1, 3, 4, 5>>)>>

\* a triangle with indices counted from the end of the vertex list
Relative ==
    <<VLine(0, 0, 0), VLine(2, 0, 0), VLine(2, 2, 0), Plain(<<-3, -2, -1>>)>>

\* a triangle with a token that holds no number before its slash
BadToken ==
    <<VLine(0, 0, 0), VLine(2, 0, 0), VLine(2, 2, 0),
      FLine(<<Token(1), <<"/">> \o Token(2), Token(3)>>)>>

\* the most vertices of a polygon given to BVH::build
MaxBuildSize == 14

\* a hexagon and its first triangle once more: two equal centroids
Twins ==
    [k \in 1..6 |-> VLine(k - 1, (k - 1) * (k - 1), 0)]
    \o <<Plain(<<1, 2, 3, 4, 5, 6>>), Plain(<<1, 2, 3>>)>>

\* the files whose triangles are given to BVH::build in the world "build"
BuildFiles ==
    {Bipyramid, ThinPair, Twins} \cup {Polygon(n) : n \in 0..MaxBuildSize}

ClosedFiles == {Bipyramid, Tetrahedron}
OBJFiles ==
    ClosedFiles \cup {ThinPair, OutOfRange, Relative, BadToken}
    \cup {Polygon(n) : n \in 0..MaxFaceSize}

\* the points asked of findClosestDistance
QueryPoints ==
    {<<R(x, 1), R(y, 1), R(z, 1)>> :
        x \in {-1, 0, 7}, y \in {0, 2}, z \in {0, 1}}

\* the rays asked of countIntersections
RayOrigins ==
    {<<R(x, 1), R(y, 1), R(z, 1)>> : x \in {-7, 0}, y \in {0, 1, 3}, z \in {0, 1}}
RayDirections ==
    {<<One, Zero, Zero>>, <<MinusOne, Zero, Zero>>, <<Zero, One, Zero>>,
     <<One, One, One>>}

\* the points asked of SDF::sample: the centre of the box of the mesh and
\* points on the line through it along X, eighths of the extent apart
SamplePointsOf(m) ==
    LET centre == VScale(VAdd(m.minBounds, m.maxBounds), R(1, 2))
        step == RDiv(RSub(m.maxBounds[1], m.minBounds[1]), R(8, 1))
    IN  {<<RAdd(centre[1], RMul(R(k, 1), step)), centre[2], centre[3]>> :
            k \in -5..5}

(***************************************************************************)
(* A Mesh, a BVH over its triangles and an SDF generated from it            *)
(***************************************************************************)
InitMesh == InitWorld("mesh")

\* Mesh::loadOBJ
MeshLoadOBJ ==
    /\ world \in {"mesh", "build"} /\ ~mesh.loaded
    /\ \E file \in IF world = "build" THEN BuildFiles ELSE OBJFiles :
         mesh' = LoadOBJ(mesh, file)
    /\ UNCHANGED <<outside, world, simulation, root, sdf, answer>>

\* BVH::build over the triangles of the mesh
BVHBuild ==
    /\ \/ world = "mesh" /\ mesh.triangles # <<>>
       \/ world = "build" /\ mesh.loaded
    /\ ~root.built
    /\ answer = NoAnswer
    /\ \E tree \in Build(mesh.triangles) : root' = tree
    /\ UNCHANGED <<outside, world, simulation, mesh, sdf, answer>>

\* BVH::findClosestDistance
BVHFindClosestDistance ==
    /\ world = "mesh" /\ root.built /\ answer = NoAnswer
    /\ \E point \in QueryPoints :
         answer' = [query |-> "findClosestDistance", point |-> point,
                    value |-> FindClosestDistance(point, mesh.triangles, root)]
    /\ UNCHANGED <<outside, world, simulation, mesh, root, sdf>>

\* BVH::countIntersections
BVHCountIntersections ==
    /\ world = "mesh" /\ root.built /\ answer = NoAnswer
    /\ \E point \in RayOrigins, direction \in RayDirections :
         answer' = [query |-> "countIntersections", point |-> point,
                    direction |-> direction,
                    value |-> CountIntersections(point, direction,
                                                 mesh.triangles, root)]
    /\ UNCHANGED <<outside, world, simulation, mesh, root, sdf>>

\* SDF::generateFromMesh, from a closed mesh
SDFGenerateFromMesh ==
    /\ world = "mesh" /\ mesh.result /\ mesh.file \in ClosedFiles
    /\ sdf = NoSDF /\ answer = NoAnswer
    /\ \E resolution \in 2..MaxResolution, tree \in Build(mesh.triangles) :
         sdf' = GenerateFromMesh(mesh, resolution, tree)
    /\ UNCHANGED <<outside, world, simulation, mesh, root, answer>>

\* SDF::sample
SDFSample ==
    /\ world = "mesh" /\ sdf # NoSDF /\ answer = NoAnswer
    /\ \E point \in SamplePointsOf(mesh) :
         answer' = [query |-> "sample", point |-> point,
                    value |-> SampleSign(sdf, point)]
    /\ UNCHANGED <<outside, world, simulation, mesh, root, sdf>>

\* BVH::buildRecursive as a call of build on more than 4 * 2^depth
\* triangles makes it at depth: over the triangles of the mesh
BVHBuildRecursive ==
    /\ world = "build" /\ mesh.loaded /\ ~root.built
    /\ \E depth \in 0..(MaxDepth + 1) :
         /\ root' \in BuildRecursive(mesh.triangles,
                                     [i \in 1..Len(mesh.triangles) |-> i], depth)
         /\ answer' = [query |-> "buildRecursive", depth |-> depth]
    /\ UNCHANGED <<outside, world, simulation, mesh, sdf>>

InitBuild == InitWorld("build")

NextBuild ==
    \/ MeshLoadOBJ
    \/ BVHBuild
    \/ BVHBuildRecursive

SpecBuild == InitBuild /\ [][NextBuild]_vars

NextMesh ==
    \/ MeshLoadOBJ
    \/ BVHBuild
    \/ BVHFindClosestDistance
    \/ BVHCountIntersections
    \/ SDFGenerateFromMesh
    \/ SDFSample

SpecMesh == InitMesh /\ [][NextMesh]_vars

(***************************************************************************)
(* Objects loaded from files and handed to the simulation                   *)
(***************************************************************************)
\* a triangle whose third vertex line is malformed and skipped, so that
\* the face names a fourth vertex of three
SkippedVertex ==
    <<VLine(0, 0, 0), VLine(2, 0, 0), <<"v", <<One, One>>>>, VLine(2, 2, 4),
      Plain(<<1, 2, 3>>), Plain(<<1, 2, 4>>)>>

\* a triangle with the index 0
ZeroIndex ==
    <<VLine(0, 0, 0), VLine(2, 0, 0), VLine(2, 2, 0), Plain(<<0, 1, 2>>)>>

\* the files given to CollisionObject::loadFromOBJ
LoadFiles ==
    {Tetrahedron, Polygon(4), OutOfRange, Relative, BadToken, SkippedVertex,
     ZeroIndex}

InitLoad == InitWorld("load")

\* CollisionObject::loadFromOBJ on the object the caller holds; mesh is the
\* Mesh of that object
HeldLoadFromOBJ ==
    /\ world = "load" /\ pc = 0 /\ ticks = 0
    /\ \E file \in LoadFiles :
         /\ mesh' = LoadOBJ(mesh, file)
         /\ held' = LoadFromOBJ(held, mesh'.result, mesh'.minBounds,
                                mesh'.maxBounds)
         /\ answer' = [query |-> "loadFromOBJ", file |-> file,
                       value |-> mesh'.result]
    /\ UNCHANGED <<world, simulation, root, sdf, cache, statics>>

\* Simulation::addCollisionObject given the object the caller holds (the
\* std::unique_ptr is moved from, and the caller makes a new object)
AddHeldObject ==
    /\ world = "load" /\ pc = 0 /\ ticks = 0
    /\ Len(collisionObjects) < MaxObjects
    /\ collisionObjects' = IF IsValid(held) THEN Append(collisionObjects, held)
                           ELSE collisionObjects
    /\ answer' = [query |-> "addCollisionObject", file |-> mesh.file,
                  value |-> IsValid(held)]
    /\ held' = NewObject
    /\ mesh' = NoMesh
    /\ UNCHANGED <<world, boundsMin, boundsMax, particles, pc, deltaTime, ticks,
                   stepLog, boundsLog, meshLog, wallLog, hitLog, seen,
                   trajectory, twin, root, sdf, cache, statics>>

NextLoad ==
    \/ Initialize
    \/ HeldLoadFromOBJ
    \/ AddHeldObject
    \/ BeginUpdate
    \/ StepUpdatePhysics
    \/ StepObjectBounds
    \/ StepMeshToMesh
    \/ StepParticleUpdate
    \/ StepWallCollisions
    \/ StepObjectCollisions

SpecLoad == InitLoad /\ [][NextLoad]_vars

(***************************************************************************)
(* The collision responses as functions of their arguments                 *)
(***************************************************************************)
\* masses given to Particle::Particle and to CollisionObject::setMass
ResponseMasses == {Zero, One, Two, R(-4, 1)}

ResponseParticles ==
    {NewParticle(VZero, v, R(1, 10), m) :
        v \in {<<One, Zero, Zero>>, <<MinusOne, R(1, 2), Zero>>},
        m \in ResponseMasses}

ResponseObjects ==
    {Body(R(1, 10), m, c, v, Zero) :
        m \in ResponseMasses \ {Two},
        c \in {VZero, <<R(1, 10), Zero, Zero>>},
        v \in {VZero, <<One, Zero, Zero>>}}

ResponseGradients == {<<MinusOne, Zero, Zero>>, <<R(1, 3), R(-2, 3), R(2, 3)>>}

InitResponse == InitWorld("response")

\* a call of Simulation::calculateCollisionResponse
ResponseCalculate ==
    /\ world = "response"
    /\ \E p \in ResponseParticles, o \in ResponseObjects,
          g \in ResponseGradients :
         LET r == CalculateCollisionResponse(p, o, Normalize(g))
         IN  answer' = [query |-> "calculateCollisionResponse",
                        particle |-> p, object |-> o, normal |-> Normalize(g),
                        velocity |-> r.velocity, objectAfter |-> r.object,
                        divisors |-> r.divisors]
    /\ UNCHANGED <<outside, world, simulation, mesh, root, sdf>>

\* a call of Simulation::handleMeshToMeshCollisions with two objects in the
\* list
ResponseMeshToMesh ==
    /\ world = "response"
    /\ \E o1 \in ResponseObjects, o2 \in ResponseObjects :
         \E r \in HandleMeshToMeshCollisions(<<o1, o2>>, PairDistancesOf(world)) :
            answer' = [query |-> "handleMeshToMeshCollisions",
                       objects |-> <<o1, o2>>, after |-> r.objects,
                       log |-> r.log]
    /\ UNCHANGED <<outside, world, simulation, mesh, root, sdf>>

NextResponse ==
    \/ ResponseCalculate
    \/ ResponseMeshToMesh

SpecResponse == InitResponse /\ [][NextResponse]_vars

(***************************************************************************)
(* Properties                                                              *)
(***************************************************************************)
\* a body with inverse mass > 0, and the momentum of a pair
Dynamic(b) == RGt(b.inverseMass, Zero)
Momentum(m1, v1, m2, v2) == VAdd(VScale(v1, m1), VScale(v2, m2))
\* dot(v1 - v2, dir): the relative velocity along a direction
Along(v1, v2, dir) == VDot(VSub(v1, v2), dir)
\* boundsMin + radius <= pos <= boundsMax - radius on the three axes
InsideBounds(p) ==
    \A a \in Axes :
        /\ RLe(RAdd(boundsMin[a], p.size), p.position[a])
        /\ RLe(p.position[a], RSub(boundsMax[a], p.size))
\* the box holds a sphere of the particle's radius
WideEnough(p) ==
    \A a \in Axes : RLe(RMul(Two, p.size), RSub(boundsMax[a], boundsMin[a]))
JustAfter(name) == stepLog # <<>> /\ stepLog[Len(stepLog)] = name

\* the order of the sub-steps as the specification lists them
ListedOrder ==
    <<"updatePhysics", "updateCollisionObjectBounds", "handleMeshToMeshCollisions",
      "particleSystemUpdate", "handleWallCollisions",
      "handleMultipleCollisionObjectCollisions">>

\* C1: one call of update runs the six sub-steps once each in the listed
\* order (objects integrated, objects wall-bounced, mesh-mesh, particles
\* integrated, particles wall-bounced, particle-mesh), and its particle-mesh
\* step reads the objects exactly as the mesh-mesh step of the same call
\* left them.
C1_SixStepsInOrder ==
    /\ pc # 0 => stepLog = SubSeq(ListedOrder, 1, pc - 1)
    /\ (pc = 0 /\ ticks > 0) =>
         /\ stepLog = ListedOrder
         /\ seen.writtenAt = ticks /\ seen.readAt = ticks
         /\ seen.read = seen.written
         /\ hitLog # <<>> =>
              hitLog[1].objBefore = seen.written[hitLog[1].object]

\* a finished call in which the mesh-mesh step changed a body that a
\* particle then hit
C1_Witness ==
    /\ pc = 0 /\ ticks = 1 /\ stepLog = ListedOrder /\ hitLog # <<>>
    /\ \E k \in 1..Len(meshLog) :
         /\ meshLog[k].fired
         /\ meshLog[k].after # meshLog[k].before
         /\ hitLog[1].object \in {meshLog[k].i, meshLog[k].j}

\* C2: right after handleWallCollisions every particle whose diameter fits
\* between the walls on each axis satisfies
\* boundsMin + radius <= pos <= boundsMax - radius on the three axes.
C2_InsideAfterWallBounce ==
    JustAfter("handleWallCollisions") =>
        \A i \in 1..Len(particles) :
            WideEnough(particles[i]) => InsideBounds(particles[i])

\* a particle that was outside these limits and was pushed back
C2_Witness ==
    /\ JustAfter("handleWallCollisions")
    /\ \E i \in 1..Len(wallLog) :
         /\ wallLog[i].collision
         /\ WideEnough(wallLog[i].before)
         /\ ~InsideBounds(wallLog[i].before)
         /\ wallLog[i].after.position # wallLog[i].before.position
         /\ particles[i] = wallLog[i].after

\* C2 as stated: the same for every radius and every box
C2_AsStated ==
    JustAfter("handleWallCollisions") =>
        \A i \in 1..Len(particles) : InsideBounds(particles[i])

\* C3: in the bouncing-particle scenario the particle is inside the bounds
\* after every tick, it returns to each position 360 ticks (3.6 s) later,
\* and 180 ticks (1.8 s, the time from wall to wall) later it is at the
\* mirrored position.
C3_InsideWithPeriod360 ==
    LET n == Len(trajectory)
    IN  /\ pc = 0 => \A i \in 1..Len(particles) : InsideBounds(particles[i])
        /\ n > 180 => trajectory[n] = VNeg(trajectory[n - 180])
        /\ n > 360 => trajectory[n] = trajectory[n - 360]

\* the 1000 ticks have run, with the first wall contact at tick 90
C3_Witness ==
    /\ pc = 0 /\ ticks = 1000 /\ Len(trajectory) = 1001
    /\ trajectory[91] = <<R(9, 10), Zero, Zero>>
    /\ trajectory[92] = <<R(89, 100), Zero, Zero>>

\* C3 as stated: inside the bounds, and some period of 170 to 190 ticks
\* brings the particle back to within 0.1 of every position
C3_AsStated ==
    LET n == Len(trajectory)
    IN  /\ pc = 0 => \A i \in 1..Len(particles) : InsideBounds(particles[i])
        /\ n >= 400 =>
             \E period \in 170..190 :
                 \A t \in 1..(n - period) :
                     RLe(RAbs(RSub(trajectory[t + period][1], trajectory[t][1])),
                         R(1, 10))

\* C4: the impulse response between two dynamic bodies leaves
\* m_A * v_A + m_B * v_B unchanged, between two objects and between a
\* particle and a dynamic object.
C4_MomentumConserved ==
    /\ \A k \in 1..Len(meshLog) :
         LET e == meshLog[k]
         IN  (e.fired /\ Dynamic(e.before[1]) /\ Dynamic(e.before[2])) =>
                 Momentum(e.after[1].mass, e.after[1].velocity,
                          e.after[2].mass, e.after[2].velocity)
                 = Momentum(e.before[1].mass, e.before[1].velocity,
                            e.before[2].mass, e.before[2].velocity)
    /\ \A k \in 1..Len(hitLog) :
         LET e == hitLog[k]
         IN  Dynamic(e.objBefore) =>
                 Momentum(e.after.mass, e.after.velocity,
                          e.objAfter.mass, e.objAfter.velocity)
                 = Momentum(e.before.mass, e.before.velocity,
                            e.objBefore.mass, e.objBefore.velocity)

\* two objects of different mass exchanged an impulse, and so did a
\* particle and a dynamic object
C4_Witness ==
    /\ \E k \in 1..Len(meshLog) :
         LET e == meshLog[k]
         IN  /\ e.fired /\ Dynamic(e.before[1]) /\ Dynamic(e.before[2])
             /\ e.before[1].mass # e.before[2].mass
             /\ e.after[1].velocity # e.before[1].velocity
             /\ e.after[2].velocity # e.before[2].velocity
    /\ \E k \in 1..Len(hitLog) :
         LET e == hitLog[k]
         IN  /\ Dynamic(e.objBefore)
             /\ e.after.velocity # e.before.velocity
             /\ e.objAfter.velocity # e.objBefore.velocity

\* object 1 moves +X and object 2 moves -X at speed 1, equal masses, the
\* centres apart along X with object 1 on the lower side
HeadOn(e) ==
    /\ e.fired /\ Dynamic(e.before[1]) /\ Dynamic(e.before[2])
    /\ e.before[1].mass = e.before[2].mass
    /\ e.before[1].velocity = <<One, Zero, Zero>>
    /\ e.before[2].velocity = <<MinusOne, Zero, Zero>>
    /\ RLt(e.before[1].position[1], e.before[2].position[1])
    /\ e.before[1].position[2] = e.before[2].position[2]
    /\ e.before[1].position[3] = e.before[2].position[3]

\* C5: resolveObjectCollision swaps the velocities of two dynamic objects of
\* equal mass that collide head-on along X: (1,0,0) and (-1,0,0) become
\* (-1,0,0) and (1,0,0).
C5_HeadOnSwap ==
    \A k \in 1..Len(meshLog) :
        HeadOn(meshLog[k]) =>
            /\ meshLog[k].after[1].velocity = <<MinusOne, Zero, Zero>>
            /\ meshLog[k].after[2].velocity = <<One, Zero, Zero>>

C5_Witness == \E k \in 1..Len(meshLog) : HeadOn(meshLog[k])

\* the velocities of the two bodies of a resolved pair were left alone
PairVelocitiesKept(e) ==
    /\ e.after[1].velocity = e.before[1].velocity
    /\ e.after[2].velocity = e.before[2].velocity
\* (v1 - v2) . dir for a resolved pair, dir from body 1 to body 2
PairAlong(e) == Along(e.before[1].velocity, e.before[2].velocity, e.normal.dir)
\* (vParticle - vObject) . dir for a contact, dir the object's gradient
HitAlong(e) == Along(e.before.velocity, e.objBefore.velocity, e.normal.dir)
HitAlongAfter(e) == Along(e.after.velocity, e.objAfter.velocity, e.normal.dir)

\* C6: only the particle-vs-dynamic-object response tests for separation:
\* with n the object's surface normal at the particle and
\* vN = (vParticle - vObject) . n, vN > 0 leaves both velocities as they
\* were.  Between two dynamic objects the impulse is applied for every sign
\* of vN = (v1 - v2) . n, so the velocities change whenever vN # 0; and a
\* particle is reflected off a static object for every sign of v . n.
C6_SeparatingTestOnParticlePathOnly ==
    /\ \A k \in 1..Len(hitLog) :
         LET e == hitLog[k]
         IN  /\ (Dynamic(e.objBefore) /\ RGt(HitAlong(e), Zero)) =>
                    /\ e.after.velocity = e.before.velocity
                    /\ e.objAfter.velocity = e.objBefore.velocity
             /\ (~Dynamic(e.objBefore) /\ HitAlong(e) # Zero) =>
                    e.after.velocity # e.before.velocity
    /\ \A k \in 1..Len(meshLog) :
         LET e == meshLog[k]
         IN  (e.fired /\ Dynamic(e.before[1]) /\ Dynamic(e.before[2])) =>
                 (PairVelocitiesKept(e) <=> PairAlong(e) = Zero)

\* a particle moving away from a dynamic object it touches, after two
\* dynamic objects with vN > 0 had their velocities changed
C6_Witness ==
    /\ \E k \in 1..Len(hitLog) :
         /\ Dynamic(hitLog[k].objBefore)
         /\ RGt(HitAlong(hitLog[k]), Zero)
    /\ \E k \in 1..Len(meshLog) :
         LET e == meshLog[k]
         IN  /\ e.fired /\ Dynamic(e.before[1]) /\ Dynamic(e.before[2])
             /\ RGt(PairAlong(e), Zero)
             /\ ~PairVelocitiesKept(e)

\* C6 as stated: vN > 0 leaves the velocities alone on both paths
C6_AsStated ==
    /\ \A k \in 1..Len(hitLog) :
         LET e == hitLog[k]
         IN  (Dynamic(e.objBefore) /\ RGt(HitAlong(e), Zero)) =>
                 /\ e.after.velocity = e.before.velocity
                 /\ e.objAfter.velocity = e.objBefore.velocity
    /\ \A k \in 1..Len(meshLog) :
         LET e == meshLog[k]
         IN  (e.fired /\ Dynamic(e.before[1]) /\ Dynamic(e.before[2])
                /\ RGt(PairAlong(e), Zero)) => PairVelocitiesKept(e)

\* C7: a particle that hits a dynamic object while approaching it leaves
\* with the relative normal velocity reversed in full (e = 1):
\* vN after = -vN before.
C7_ParticleImpulseIsElastic ==
    \A k \in 1..Len(hitLog) :
        LET e == hitLog[k]
        IN  (Dynamic(e.objBefore) /\ RLe(HitAlong(e), Zero)) =>
                HitAlongAfter(e) = RNeg(HitAlong(e))

\* a particle approaching the dynamic object it hits
C7_Witness ==
    \E k \in 1..Len(hitLog) :
        /\ Dynamic(hitLog[k].objBefore)
        /\ RLt(HitAlong(hitLog[k]), Zero)
        /\ hitLog[k].after.velocity # hitLog[k].before.velocity

\* C7 as stated: vN after = -0.8 * vN before
C7_AsStated ==
    \A k \in 1..Len(hitLog) :
        LET e == hitLog[k]
        IN  (Dynamic(e.objBefore) /\ RLe(HitAlong(e), Zero)) =>
                HitAlongAfter(e) = RMul(R(-4, 5), HitAlong(e))

\* v - 2 (v . n) n for the normal dir / sqrt(q)
Mirrored(v, n) == VSub(v, VScale(n.dir, RDiv(RMul(Two, VDot(v, n.dir)), n.q)))

\* C8: a particle that hits a static object leaves with v - 2 (v . n) n and
\* the object is as it was; v = (1,0,0) and n = (-1,0,0) give (-1,0,0).
C8_StaticReflection ==
    \A k \in 1..Len(hitLog) :
        LET e == hitLog[k]
        IN  e.objBefore.inverseMass = Zero =>
                /\ e.after.velocity = Mirrored(e.before.velocity, e.normal)
                /\ e.objAfter = e.objBefore
                /\ (/\ e.before.velocity = <<One, Zero, Zero>>
                    /\ e.normal = [dir |-> <<MinusOne, Zero, Zero>>, q |-> One]) =>
                       e.after.velocity = <<MinusOne, Zero, Zero>>

\* a particle with v = (1,0,0) hit a static object whose normal is (-1,0,0)
C8_Witness ==
    \E k \in 1..Len(hitLog) :
        /\ hitLog[k].objBefore.inverseMass = Zero
        /\ hitLog[k].before.velocity = <<One, Zero, Zero>>
        /\ hitLog[k].normal = [dir |-> <<MinusOne, Zero, Zero>>, q |-> One]

\* max(0, -dist1, -dist2)
DeepestPenetration(e) == RMax(RMax(Zero, RNeg(e.dist1)), RNeg(e.dist2))

\* C9: the depth used by the position correction is max(-dist1, -dist2)
\* over the distances that are negative, and 0.05 only when neither is
\* negative; a measured penetration of 0.01 gives the depth 0.01.
C9_DepthIsPenetrationOrDefault ==
    \A k \in 1..Len(meshLog) :
        LET e == meshLog[k]
        IN  e.fired =>
                e.penetrationDepth =
                    IF RLt(e.dist1, Zero) \/ RLt(e.dist2, Zero)
                    THEN DeepestPenetration(e) ELSE R(1, 20)

\* a pair resolved with a measured penetration of 0.01
C9_Witness ==
    \E k \in 1..Len(meshLog) :
        /\ meshLog[k].fired
        /\ meshLog[k].dist1 = R(-1, 100)
        /\ meshLog[k].penetrationDepth = R(1, 100)

\* C9 as stated: the depth is max(0, -dist1, -dist2, 0.05)
C9_AsStated ==
    \A k \in 1..Len(meshLog) :
        LET e == meshLog[k]
        IN  e.fired =>
                /\ e.penetrationDepth = RMax(DeepestPenetration(e), R(1, 20))
                /\ RGe(e.penetrationDepth, R(1, 20))

\* body b of a resolved pair was moved by amount along the normal, away
\* from the other body
MovedBy(e, b, amount) ==
    e.after[b].position =
        IF b = 1 THEN VSub(e.before[1].position, NormalTimes(e.normal, amount))
        ELSE VAdd(e.before[2].position, NormalTimes(e.normal, amount))

\* C10: with s = max(0.02, 1.2 * depth), every non-static body of a resolved
\* pair is moved s/2 along the normal away from the other, also when the
\* other body is static; a static body is not moved.
C10_EachMovingBodyGetsHalf ==
    \A k \in 1..Len(meshLog) :
        LET e == meshLog[k]
        IN  e.fired =>
                /\ e.separation = RMax(R(1, 50), RMul(R(6, 5), e.penetrationDepth))
                /\ \A b \in 1..2 :
                     IF Dynamic(e.before[b])
                     THEN MovedBy(e, b, RMul(e.separation, R(1, 2)))
                     ELSE e.after[b].position = e.before[b].position

\* a dynamic body resolved against a static one
C10_Witness ==
    \E k \in 1..Len(meshLog) :
        LET e == meshLog[k]
        IN  /\ e.fired
            /\ \E b \in 1..2 :
                 /\ Dynamic(e.before[b]) /\ ~Dynamic(e.before[3 - b])
                 /\ MovedBy(e, b, RMul(e.separation, R(1, 2)))
                 /\ e.after[b].position # e.before[b].position

\* C10 as stated: the single non-static body of a pair is moved by s
C10_AsStated ==
    \A k \in 1..Len(meshLog) :
        LET e == meshLog[k]
        IN  e.fired =>
                /\ e.separation = RMax(R(1, 50), RMul(R(6, 5), e.penetrationDepth))
                /\ \A b \in 1..2 :
                     IF Dynamic(e.before[b])
                     THEN MovedBy(e, b, IF Dynamic(e.before[3 - b])
                                        THEN RMul(e.separation, R(1, 2))
                                        ELSE e.separation)
                     ELSE e.after[b].position = e.before[b].position

\* the faces of the world box of object o on axis a reached the walls
AtMinWall(o, a) == RLe(GetWorldMin(o)[a], boundsMin[a])
AtMaxWall(o, a) == RGe(GetWorldMax(o)[a], boundsMax[a])

\* C11: after updateCollisionObjectBounds, a non-static object whose box
\* reached or passed the min wall on an axis has +|v| on that axis and its
\* min face on the wall; one that reached or passed the max wall only has
\* -|v| and its max face on the wall; when the box reached both walls of an
\* axis the min wall alone is handled.  An axis that reached no wall, and a
\* static object, are left as they were.
C11_ObjectWallBounce ==
    \A i \in 1..Len(boundsLog) :
        LET o == boundsLog[i].before
            n == boundsLog[i].after
        IN  IF ~Dynamic(o) THEN n = o
            ELSE \A a \in Axes :
                   IF AtMinWall(o, a)
                   THEN /\ n.velocity[a] = RAbs(o.velocity[a])
                        /\ GetWorldMin(n)[a] = boundsMin[a]
                   ELSE IF AtMaxWall(o, a)
                   THEN /\ n.velocity[a] = RNeg(RAbs(o.velocity[a]))
                        /\ GetWorldMax(n)[a] = boundsMax[a]
                   ELSE /\ n.velocity[a] = o.velocity[a]
                        /\ n.position[a] = o.position[a]

\* an object that had passed the max wall was turned round and moved back
C11_Witness ==
    /\ JustAfter("updateCollisionObjectBounds")
    /\ \E i \in 1..Len(boundsLog) : \E a \in Axes :
         LET o == boundsLog[i].before
             n == boundsLog[i].after
         IN  /\ Dynamic(o) /\ ~AtMinWall(o, a)
             /\ RGt(GetWorldMax(o)[a], boundsMax[a])
             /\ RGt(o.velocity[a], Zero) /\ RLt(n.velocity[a], Zero)
             /\ n.position # o.position
             /\ collisionObjects[i] = n

\* C11 as stated: the same at every wall the box reached
C11_AsStated ==
    \A i \in 1..Len(boundsLog) :
        LET o == boundsLog[i].before
            n == boundsLog[i].after
        IN  Dynamic(o) =>
              \A a \in Axes :
                /\ AtMinWall(o, a) =>
                     /\ n.velocity[a] = RAbs(o.velocity[a])
                     /\ GetWorldMin(n)[a] = boundsMin[a]
                /\ AtMaxWall(o, a) =>
                     /\ n.velocity[a] = RNeg(RAbs(o.velocity[a]))
                     /\ GetWorldMax(n)[a] = boundsMax[a]

\* the mesh-mesh step of the current or the last update call has run
MeshStepDone ==
    \E k \in 1..Len(stepLog) : stepLog[k] = "handleMeshToMeshCollisions"
\* the pairs i < j of objects that are both valid and not both static
PairsToExamine ==
    {<<i, j>> \in (1..Len(collisionObjects)) \X (1..Len(collisionObjects)) :
        /\ i < j
        /\ collisionObjects[i].meshLoaded /\ collisionObjects[i].sdfGenerated
        /\ collisionObjects[j].meshLoaded /\ collisionObjects[j].sdfGenerated
        /\ (Dynamic(collisionObjects[i]) \/ Dynamic(collisionObjects[j]))}
\* the world boxes of two objects overlap or touch on the three axes
BoxesMeet(o1, o2) ==
    \A a \in Axes :
        /\ RLe(GetWorldMin(o1)[a], GetWorldMax(o2)[a])
        /\ RLe(GetWorldMin(o2)[a], GetWorldMax(o1)[a])

SamplesOf(n) == SelectSeq(hitLog, LAMBDA e : e.particle = n)
\* distance below the radius and a gradient longer than 1e-3
Usable(e) ==
    /\ RLt(e.distance, e.before.size)
    /\ RGt(VDot(e.normal.dir, e.normal.dir), R(1, 1000000))

\* C13: in the particle-mesh step a particle is corrected by at most one
\* object, the first in list order whose distance is below the radius and
\* whose normal is usable; the objects after it are not sampled for that
\* particle, and an object that is not in contact or whose normal is
\* unusable changes nothing and is followed by the next object.
C13_FirstContactWins ==
    JustAfter("handleMultipleCollisionObjectCollisions") =>
        \A n \in 1..Len(particles) :
            LET es == SamplesOf(n)
                found == wallLog[n].after
            IN  /\ Len(es) <= Len(collisionObjects)
                /\ \A k \in 1..Len(es) :
                     /\ es[k].object = k
                     /\ es[k].before = found
                     /\ es[k].applied <=> Usable(es[k])
                     /\ es[k].applied => k = Len(es) /\ particles[n] = es[k].after
                     /\ ~es[k].applied =>
                          /\ es[k].after = found
                          /\ es[k].objAfter = es[k].objBefore
                /\ (\A k \in 1..Len(es) : ~es[k].applied) =>
                     /\ Len(es) = Len(collisionObjects)
                     /\ particles[n] = found

\* a particle met an unusable normal at the first object and was corrected
\* by the second
C13_Witness ==
    /\ JustAfter("handleMultipleCollisionObjectCollisions")
    /\ \E n \in 1..Len(particles) :
         LET es == SamplesOf(n)
         IN  /\ Len(es) = 2
             /\ RLt(es[1].distance, es[1].before.size) /\ ~es[1].applied
             /\ es[2].applied
             /\ particles[n].velocity # wallLog[n].after.velocity
             /\ particles[n].position # wallLog[n].after.position

\* C14: two runs constructed with the same bounds, initialized with the
\* same arguments and given the same update calls hold the same particles
\* (there are no objects in either).
C14_AsStated ==
    (twin.initialized /\ twin.args # <<>> /\ pc = 0) => twin.particles = particles

\* the quaternion has norm 1
UnitQuaternion(q) ==
    RAdd(RAdd(RMul(q[1], q[1]), RMul(q[2], q[2])),
         RAdd(RMul(q[3], q[3]), RMul(q[4], q[4]))) = One

\* C19 as stated: in every state the calls of the interface of a
\* CollisionObject can reach, its rotation is a unit quaternion and each
\* component of its scale is strictly positive.  setRotation and setScale
\* store their argument unchecked, so the calls reach states where it fails.
C19_AsStated ==
    \A i \in 1..Len(collisionObjects) :
        /\ UnitQuaternion(collisionObjects[i].rotation)
        /\ \A a \in Axes : RGt(collisionObjects[i].scale[a], Zero)


\* the least of the distances of point to the triangles from the k-th on,
\* each found by SDF::pointToTriangleDistance
RECURSIVE BruteForceDistance(_, _, _)
BruteForceDistance(point, triangles, k) ==
    IF k > Len(triangles) THEN FloatMax
    ELSE DMin(PointToTriangleDistance(point, triangles[k]),
              BruteForceDistance(point, triangles, k + 1))

\* the triangle has an area
NonDegenerate(tri) ==
    Cross(VSub(tri.v1, tri.v0), VSub(tri.v2, tri.v0)) # VZero

\* C15 as stated: over triangles that are not degenerate, what
\* BVH::findClosestDistance returns for a point is the least of the
\* distances of the point to the triangles, so that neither the boxes nor
\* the sphere of the leaf loop set the nearest triangle aside.  The sphere
\* of radius 0.6 * maxEdge about the centroid does not hold a thin triangle,
\* and the leaf loop skips the nearest triangle when it comes after another.
C15_AsStated ==
    (/\ answer.query = "findClosestDistance"
     /\ \A k \in 1..Len(mesh.triangles) : NonDegenerate(mesh.triangles[k]))
    => answer.value = BruteForceDistance(answer.point, mesh.triangles, 1)

\* the triangles the Moller-Trumbore test with t > 1e-7 reports as hit
BruteForceHits(point, direction, triangles) ==
    {k \in 1..Len(triangles) : RayHitsTriangle(point, direction, triangles[k])}

\* C16 as stated: what BVH::countIntersections returns for a ray, whatever
\* components of its direction are zero, is the number of triangles the
\* Moller-Trumbore test reports as hit, so that the slab test sets no box
\* with a hit triangle aside.  With a zero component the slab test forms
\* 0 * infinity for an origin in the plane of a face of the box, and the
\* comparisons with the NaN make it miss the box.
C16_AsStated ==
    answer.query = "countIntersections"
    => answer.value = Cardinality(BruteForceHits(answer.point, answer.direction,
                                                 mesh.triangles))

\* the nodes of the tree under node, itself included
RECURSIVE NodesOf(_)
NodesOf(node) ==
    IF node.isLeaf THEN {node}
    ELSE {node} \cup NodesOf(node.left) \cup NodesOf(node.right)

\* the triangles of the leaves under node
RECURSIVE SubtreeIndices(_)
SubtreeIndices(node) ==
    IF node.isLeaf
    THEN {node.triangleIndices[k] : k \in 1..Len(node.triangleIndices)}
    ELSE SubtreeIndices(node.left) \cup SubtreeIndices(node.right)

\* the box of node holds the point p
Encloses(node, p) ==
    \A a \in Axes : RLe(node.minBounds[a], p[a]) /\ RLe(p[a], node.maxBounds[a])

\* the boxes of the tree hold what is under them
BoxesEnclose(tree, triangles) ==
    \A node \in NodesOf(tree) :
        /\ \A i \in SubtreeIndices(node) :
              \A p \in TriangleVertices(triangles[i]) : Encloses(node, p)
        /\ ~node.isLeaf =>
              \A child \in {node.left, node.right} :
                  Encloses(node, child.minBounds) /\ Encloses(node, child.maxBounds)

\* C17: in a tree BVH::build returned, the box of every node holds every
\* vertex of every triangle of the leaves under it, and the box of an inner
\* node holds the boxes of its two children.
C17_BoxesEncloseSubtrees ==
    /\ root.built => BoxesEnclose(root, mesh.triangles)
    /\ sdf # NoSDF => BoxesEnclose(sdf.bvh, mesh.triangles)

\* a tree over the eight triangles of the bipyramid: an inner node over two
\* leaves of four
C17_Witness ==
    /\ root.built /\ ~root.isLeaf /\ mesh.file = Bipyramid
    /\ root.left.isLeaf /\ Len(root.left.triangleIndices) = 4
    /\ SubtreeIndices(root) = 1..8

\* which side of the plane of the triangle p is on
PlaneSide(tri, p) ==
    VDot(Cross(VSub(tri.v1, tri.v0), VSub(tri.v2, tri.v0)), VSub(p, tri.v0))

\* the mean of the centroids of the triangles from the k-th on, times their
\* number
RECURSIVE CentroidSum(_, _)
CentroidSum(triangles, k) ==
    IF k > Len(triangles) THEN VZero
    ELSE VAdd(ComputeCentroid(triangles[k]), CentroidSum(triangles, k + 1))

\* a point that a closed convex mesh holds strictly
InnerPoint(triangles) ==
    VScale(CentroidSum(triangles, 1), R(1, Len(triangles)))

\* p is strictly inside the closed convex mesh: on the inner side of the
\* plane of every face
StrictlyInside(p, triangles) ==
    \A k \in 1..Len(triangles) :
        RGt(RMul(PlaneSide(triangles[k], p),
                 PlaneSide(triangles[k], InnerPoint(triangles))), Zero)

\* p is strictly outside it: beyond the plane of some face
StrictlyOutside(p, triangles) ==
    \E k \in 1..Len(triangles) :
        RLt(RMul(PlaneSide(triangles[k], p),
                 PlaneSide(triangles[k], InnerPoint(triangles))), Zero)

\* C18 as stated: for an SDF generated from a closed manifold mesh,
\* SDF::sample is negative at every point strictly inside the mesh and
\* positive at every point strictly outside it.  A +X ray through an edge
\* or a vertex is counted once by every triangle that shares it, so the
\* parity stored for a voxel can be that of the other side.
C18_AsStated ==
    (answer.query = "sample" /\ mesh.file \in ClosedFiles)
    => /\ StrictlyInside(answer.point, mesh.triangles) => answer.value < 0
       /\ StrictlyOutside(answer.point, mesh.triangles) => answer.value > 0

\* the triangles of the fan of a face, as triples of its indices
FanOf(face) ==
    [k \in 1..(Len(face) - 2) |-> <<face[1], face[k + 1], face[k + 2]>>]

\* the fans of the faces from the f-th on, in face order
RECURSIVE FansOf(_, _)
FansOf(faces, f) ==
    IF f > Len(faces) THEN <<>>
    ELSE FanOf(faces[f]) \o FansOf(faces, f + 1)

\* the faces of at least three indices and the vertices that the lines of
\* the file give
FacesOfFile(file) == ParseLines(file, 1, <<>>, <<>>).faces
VerticesOfFile(file) == ParseLines(file, 1, <<>>, <<>>).vertices

\* the triangles over the vertices of the file that the triples name
TrianglesOf(file, triples) ==
    [t \in 1..Len(triples) |->
        NewTriangle(VerticesOfFile(file)[triples[t][1] + 1],
                    VerticesOfFile(file)[triples[t][2] + 1],
                    VerticesOfFile(file)[triples[t][3] + 1])]

\* C20: when Mesh::loadOBJ returns true, the triangles of the mesh are, in
\* face order, the fans of the faces of at least three indices: for a face
\* (i0, ..., i(n-1)) the n - 2 triangles (i0, ik, i(k+1)), k = 1 .. n - 2,
\* in that order.
C20_FansWhenLoaded ==
    mesh.result
    => mesh.triangles = TrianglesOf(mesh.file, FansOf(FacesOfFile(mesh.file), 1))

\* f 1 2 3 4 5 over five vertices has given (1,2,3), (1,3,4), (1,4,5)
C20_Witness ==
    /\ mesh.result /\ mesh.file = Polygon(5)
    /\ FacesOfFile(mesh.file) = << <<0, 1, 2, 3, 4>> >>
    /\ mesh.triangles =
         TrianglesOf(mesh.file, << <<0, 1, 2>>, <<0, 2, 3>>, <<0, 3, 4>> >>)

\* C20 as stated: after Mesh::loadOBJ every face of n >= 3 indices has
\* given the n - 2 triangles of its fan.  An index outside the vertices of
\* the file (too large, or negative as in a relative index) ends the load in
\* the middle of a fan, with false returned and the triangles before it kept.
C20_AsStated ==
    mesh.loaded => Len(mesh.triangles) = Len(FansOf(FacesOfFile(mesh.file), 1))

\* a face line of at least three tokens one of which holds a number
\* outside 1 .. V, for the V vertex lines of the file that are accepted
AcceptedVertexLines(file) ==
    Cardinality({k \in 1..Len(file) : file[k][1] = "v" /\ Len(file[k][2]) >= 3})
NamesMissingVertex(file) ==
    \E k \in 1..Len(file) :
        /\ file[k][1] = "f" /\ Len(file[k][2]) >= 3
        /\ \E t \in 1..Len(file[k][2]) :
             LET parsed == StoI(BeforeSlash(file[k][2][t], 1))
             IN  parsed.ok /\ parsed.value \notin 1..AcceptedVertexLines(file)

\* C21: when a face of at least three indices names a vertex outside 1..V,
\* Mesh::loadOBJ returns false, CollisionObject::loadFromOBJ returns false
\* and leaves the object invalid, and no step makes the list of the
\* simulation longer while the caller holds that object: addCollisionObject
\* drops it, so no tick sees it.
C21_BadIndexNeverAdded ==
    [][/\ (mesh'.loaded /\ NamesMissingVertex(mesh'.file))
           => (~mesh'.result /\ ~IsValid(held')
               /\ (answer'.query = "loadFromOBJ" => ~answer'.value))
       /\ (mesh.loaded /\ NamesMissingVertex(mesh.file))
           => Len(collisionObjects') = Len(collisionObjects)]_vars

\* a tick has run over one object after an object loaded from a file with
\* a missing vertex was handed to addCollisionObject and dropped
C21_Witness ==
    /\ answer.query = "addCollisionObject" /\ ~answer.value
    /\ answer.file \in {OutOfRange, SkippedVertex}
    /\ NamesMissingVertex(answer.file)
    /\ Len(collisionObjects) = 1 /\ ticks = 1 /\ pc = 0

\* the sphere of the quick reject holds the point p: |p - centre| is at
\* most 0.6 * maxEdge
InSphere(p, tri) ==
    RLe(Length2(VSub(p, ComputeCentroid(tri))), RMul(R(9, 25), MaxEdge(tri)))

\* sqrt(A) - sqrt(B) > sqrt(C) for squares A, C >= 0 and B > 0
RootsFurtherApart(A, B, C) ==
    LET x == RSub(RSub(A, B), C)
    IN  x[1] > 0 /\ (C = Zero \/ Less(RDiv(RMul(R(4, 1), C), x), RDiv(x, B)))

\* the distance of the point to the sphere is above its distance to the
\* triangle
SphereFurther(point, tri) ==
    RootsFurtherApart(Length2(VSub(point, ComputeCentroid(tri))),
                      RMul(R(9, 25), MaxEdge(tri)),
                      PointToTriangleDistance(point, tri))

\* C22 as stated: the sphere of the quick reject, of radius 0.6 times the
\* longest edge about the centroid, holds the three vertices of every
\* triangle that is not degenerate, and the distance of a query point to the
\* sphere is never above its distance to the triangle.  A vertex of a thin
\* triangle lies up to 2/3 of a median from the centroid, which is more
\* than 0.6 of the longest edge.
C22_AsStated ==
    answer.query = "findClosestDistance"
    => \A k \in 1..Len(mesh.triangles) :
           NonDegenerate(mesh.triangles[k])
           => /\ \A v \in TriangleVertices(mesh.triangles[k]) :
                    InSphere(v, mesh.triangles[k])
              /\ ~SphereFurther(answer.point, mesh.triangles[k])

\* the depth at which the root of the tree was made
RootDepth == IF answer.query = "buildRecursive" THEN answer.depth ELSE 0

\* the indices of the leaves under node, leaf after leaf
RECURSIVE LeafIndices(_)
LeafIndices(node) ==
    IF node.isLeaf THEN node.triangleIndices
    ELSE LeafIndices(node.left) \o LeafIndices(node.right)

\* node, made at depth, is a leaf exactly when it covers at most 4
\* triangles or its depth is above 20, and so on below it; the children of
\* an inner node cover at least one triangle each
RECURSIVE LeavesAsClaimed(_, _)
LeavesAsClaimed(node, depth) ==
    /\ node.isLeaf <=> (Len(LeafIndices(node)) <= 4 \/ depth > 20)
    /\ ~node.isLeaf =>
         /\ Len(LeafIndices(node.left)) >= 1
         /\ Len(LeafIndices(node.right)) >= 1
         /\ LeavesAsClaimed(node.left, depth + 1)
         /\ LeavesAsClaimed(node.right, depth + 1)

\* C23: BVH::build returns for every triangle list (its set of trees is
\* not empty); in the tree every triangle index is carried by exactly one
\* leaf, once; a node is a leaf if and only if it covers at most 4 triangles
\* or its depth exceeds 20; and both children of an inner node cover at
\* least one triangle.
C23_TreeCoversEachTriangleOnce ==
    /\ mesh.loaded => Build(mesh.triangles) # {}
    /\ root.built =>
         LET carried == LeafIndices(root)
         IN  /\ Len(carried) = Len(mesh.triangles)
             /\ {carried[k] : k \in 1..Len(carried)} = 1..Len(mesh.triangles)
             /\ LeavesAsClaimed(root, RootDepth)

\* build has made an inner node over two inner nodes over leaves
C23_Witness ==
    /\ root.built /\ answer = NoAnswer
    /\ Len(mesh.triangles) = MaxBuildSize - 2
    /\ ~root.isLeaf /\ ~root.left.isLeaf /\ ~root.right.isLeaf
    /\ root.left.left.isLeaf /\ root.right.right.isLeaf

\* T(position) * R(rotation) * S(scale) of the object as it is now
MatrixOf(o) ==
    MatMul(Translate(o.position), MatMul(MatCast(o.rotation), ScaleMatrix(o.scale)))

\* b is the inverse of the matrix a
IsInverseOf(b, a) ==
    /\ Determinant(a) # Zero
    /\ MatMul(a, b) = Identity
    /\ MatMul(b, a) = Identity

FitsTheBox(o) ==
    \A a \in Axes : RLe(RSub(GetWorldMax(o)[a], GetWorldMin(o)[a]),
                        RSub(boundsMax[a], boundsMin[a]))

\* the box of o lies within the bounds on every axis
BoxWithinBounds(o) ==
    \A a \in Axes : /\ RGe(GetWorldMin(o)[a], boundsMin[a])
                    /\ RLe(GetWorldMax(o)[a], boundsMax[a])

\* C25: when an update call has returned, the world AABB of every
\* non-static collision object that is no larger than the box lies within
\* [boundsMin, boundsMax] on every axis.  The correction of positions in
\* resolveObjectCollision runs after updateCollisionObjectBounds and moves a
\* body resting on a wall through it.
C25_AsStated ==
    (pc = 0 /\ ticks > 0) =>
        \A i \in 1..Len(collisionObjects) :
            LET o == collisionObjects[i]
            IN  (IsValid(o) /\ ~IsStatic(o) /\ FitsTheBox(o)) => BoxWithinBounds(o)

\* the static bodies of the list keep their positions and velocities in
\* this step
StaticsKept ==
    \A i \in 1..Len(collisionObjects) :
        IsStatic(collisionObjects[i]) =>
            /\ i <= Len(collisionObjects')
            /\ IsStatic(collisionObjects'[i])
            /\ collisionObjects'[i].position = collisionObjects[i].position
            /\ collisionObjects'[i].velocity = collisionObjects[i].velocity

\* C26: a static collision object (inverse mass 0) is never moved or
\* accelerated by the simulation: no sub-step of update changes its
\* position or its velocity, whatever particles and other objects are
\* present, so both are what they were before the first update call.
C26_StaticNeverMoved == [][StaticsKept]_vars

\* an update call has returned in which a static body that has a velocity
\* was integrated over, was in a mesh-mesh contact with a dynamic body and
\* was hit by a particle
C26_Witness ==
    /\ pc = 0 /\ ticks > 0
    /\ \E k \in 1..Len(collisionObjects) :
         /\ IsStatic(collisionObjects[k])
         /\ collisionObjects[k].velocity # VZero
         /\ \E m \in 1..Len(meshLog) :
              /\ meshLog[m].fired
              /\ k \in {meshLog[m].i, meshLog[m].j}
              /\ meshLog[m].after # meshLog[m].before
         /\ \E h \in 1..Len(hitLog) :
              /\ hitLog[h].applied /\ hitLog[h].object = k
              /\ hitLog[h].after.velocity # hitLog[h].before.velocity

\* the sums of inverse masses by which the last call divided
DivisorsOfAnswer ==
    CASE answer.query = "calculateCollisionResponse" -> answer.divisors
      [] answer.query = "handleMeshToMeshCollisions" ->
           UNION {answer.log[k].divisors : k \in 1..Len(answer.log)}
      [] OTHER -> {}

\* C27: whenever an impulse scalar is computed, the sum of the two inverse
\* masses it is divided by is strictly positive, for particles and objects
\* of positive, zero and negative mass: a static object against a particle,
\* and a pair with a static object, take the reflection path, and a pair of
\* two static objects is skipped.
C27_DivisorPositive ==
    /\ \A d \in DivisorsOfAnswer : RGt(d, Zero)
    /\ answer.query = "calculateCollisionResponse" =>
          (IsStatic(answer.object) => answer.divisors = {})
    /\ answer.query = "handleMeshToMeshCollisions" =>
          \A k \in 1..Len(answer.log) :
              (\E i \in 1..2 : IsStatic(answer.log[k].before[i]))
                  => answer.log[k].divisors = {}

\* an impulse was computed for a particle of mass 0 and a dynamic object,
\* and it changed the velocity of the object
C27_Witness ==
    /\ answer.query = "calculateCollisionResponse"
    /\ answer.particle.mass = Zero /\ answer.particle.inverseMass = Zero
    /\ answer.divisors = {answer.object.inverseMass}
    /\ answer.objectAfter.velocity # answer.object.velocity

\* C28: after every initialize call, also one made after a call with
\* another box (a second simulation of the same process), exactly
\* numParticles particles exist and the position of each lies within
\* [boundsMin, boundsMax] of its own call on every axis.  The distributions
\* keep the box of the first call.
C28_AsStated ==
    answer.query = "initialize" =>
        /\ Len(particles) = answer.numParticles
        /\ \A i \in 1..Len(particles) :
               InBox(particles[i].position, boundsMin, boundsMax)

\* the component of v on axis a points into the box, or is zero, at the
\* wall the code found the particle p at on that axis
PointsInward(p, v, a) ==
    LET wall == WallNormalAxis(p.position[a], p.size, boundsMin[a], boundsMax[a])
    IN  /\ wall = One => RGe(v[a], Zero)
        /\ wall = MinusOne => RLe(v[a], Zero)

\* C29: after the particle wall-bounce step, the velocity of every particle
\* that violated a wall points into the box or is zero on each violated
\* axis, also when several walls are violated at once and when the particle
\* was moving inward before the step, and its speed is unchanged.  The step
\* reflects without testing the sign of dot(v, n).
C29_AsStated ==
    JustAfter("handleWallCollisions") =>
        \A i \in 1..Len(wallLog) :
            wallLog[i].collision =>
                /\ \A a \in Axes :
                       PointsInward(wallLog[i].before, wallLog[i].after.velocity, a)
                /\ VDot(wallLog[i].after.velocity, wallLog[i].after.velocity)
                     = VDot(wallLog[i].before.velocity, wallLog[i].before.velocity)

\* C30: when an update call has returned, also with collision objects
\* present, every particle satisfies boundsMin + radius <= pos <=
\* boundsMax - radius on every axis.  The push-out of the particle-mesh
\* step, p + n * (radius - d + 0.001), runs after the wall-bounce step and
\* is not followed by another test of the bounds.
C30_AsStated ==
    (pc = 0 /\ ticks > 0) =>
        \A i \in 1..Len(particles) : InsideBounds(particles[i])

=============================================================================
